---- MODULE Spec2Model ----
(***************************************************************************)
(* Easy_EDA_PCB_Beautify: the corner smoother (generatePathOps) and the    *)
(* DRC feedback loop of beautifyRouting (src/src/lib/beautify.ts), with    *)
(* the violation parser of src/src/lib/drc.ts.                             *)
(*                                                                         *)
(* Numbers.  The host's coordinates, widths and radii are floating point.  *)
(* The model keeps them as integers counted in 1/CoordUnit of a host unit  *)
(* (CoordUnit = 20, so the code's 0.05 tolerance is exactly 1).  A corner  *)
(* scale is an integer counted in 1/ScaleOne (ScaleOne = 10240 is 1.0, so  *)
(* repeated halving stays exact and the 0.1 floor is exactly 1024).        *)
(* Corner indices are the code's 0-based indices into path.points.         *)
(***************************************************************************)
EXTENDS Integers, Sequences, FiniteSets, TLC

(***************************************************************************)
(* Bounds of the model.                                                    *)
(***************************************************************************)
MaxRetryCount == 2     \* drcRetryCount is drawn from 0..MaxRetryCount
MaxPaths == 2          \* a pass works on 0..MaxPaths extracted paths
MaxViolations == 2     \* ids of created primitives one check may report
MaxFaults == 1         \* host calls of one pass that throw or return no id

(***************************************************************************)
(* Fixed-point units and program constants.                                *)
(***************************************************************************)
CoordUnit == 20
ScaleOne == 10240
ScaleFloor == 1024
DefaultRetries == 4

Abs(a) == IF a < 0 THEN -a ELSE a
Min(a, b) == IF a <= b THEN a ELSE b
Max(a, b) == IF a >= b THEN a ELSE b

RECURSIVE Gcd(_, _)
Gcd(a, b) == IF b = 0 THEN a ELSE Gcd(b, a % b)

\* a / b rounded towards minus infinity, for b of either sign (b # 0)
Div(a, b) == IF b > 0 THEN a \div b ELSE (-a) \div (-b)

\* (a * b) / c with the fraction b/c reduced first, so products stay small
MulDiv(a, b, c) ==
  LET g == Gcd(Abs(b), Abs(c))
      bb == IF g = 0 THEN b ELSE b \div g
      cc == IF g = 0 THEN c ELSE c \div g
  IN Div(a * bb, cc)

RECURSIVE SqrtSearch(_, _, _)
SqrtSearch(n, lo, hi) ==
  IF lo >= hi THEN lo
  ELSE LET mid == (lo + hi + 1) \div 2
       IN IF mid * mid <= n THEN SqrtSearch(n, mid, hi) ELSE SqrtSearch(n, lo, mid - 1)

\* Math.sqrt on the integer grid (exact on perfect squares)
Sqrt(n) == SqrtSearch(n, 0, Min(n, 46340))

Pt(px, py) == [x |-> px, y |-> py]
Sub(p, q) == [x |-> p.x - q.x, y |-> p.y - q.y]
Neg(v) == [x |-> -v.x, y |-> -v.y]
Dot(v, w) == v.x * w.x + v.y * w.y
Cross(v, w) == v.x * w.y - v.y * w.x
Dist2(p, q) == Dot(Sub(p, q), Sub(p, q))

\* math.ts dist
dist(p1, p2) == Sqrt(Dist2(p1, p2))

\* math.ts lerp(p1, p2, t) with t = num / den
lerp(p1, p2, num, den) ==
  [x |-> p1.x + MulDiv(p2.x - p1.x, num, den),
   y |-> p1.y + MulDiv(p2.y - p1.y, num, den)]

\* floor(10000 * tan(k degrees)) for k = 0..45
TanTable ==
  <<0, 174, 349, 524, 699, 874, 1051, 1227, 1405, 1583, 1763, 1943, 2125, 2308,
    2493, 2679, 2867, 3057, 3249, 3443, 3639, 3838, 4040, 4244, 4452, 4663, 4877,
    5095, 5317, 5543, 5773, 6008, 6248, 6494, 6745, 7002, 7265, 7535, 7812, 8097,
    8390, 8692, 9004, 9325, 9656, 10000>>

\* atan(b / a) in whole degrees (rounded down), for 0 <= b <= a, a > 0
AtanLow(b, a) ==
  LET t == MulDiv(10000, b, a)
  IN CHOOSE k \in 0..45 : TanTable[k + 1] <= t /\ (k = 45 \/ TanTable[k + 2] > t)

\* Math.atan2(y, x) * 180 / PI in whole degrees, in (-180, 180]
Atan2Deg(vy, vx) ==
  LET ax == Abs(vx)
      ay == Abs(vy)
      q == IF ax = 0 /\ ay = 0 THEN 0
           ELSE IF ay <= ax THEN AtanLow(ay, ax) ELSE 90 - AtanLow(ax, ay)
      h == IF vx >= 0 THEN q ELSE 180 - q
  IN IF vy >= 0 THEN h ELSE -h

\* math.ts getAngle
getAngle(p1, p2) == Atan2Deg(p2.y - p1.y, p2.x - p1.x)

\* math.ts getAngleBetween: the signed angle from v1 to v2, in (-180, 180]
getAngleBetween(v1, v2) ==
  LET a == getAngle(Pt(0, 0), v2) - getAngle(Pt(0, 0), v1)
  IN IF a <= -180 THEN a + 360 ELSE IF a > 180 THEN a - 360 ELSE a

\* math.ts getLineIntersection; <<>> stands for null
getLineIntersection(p1, p2, p3, p4) ==
  LET d == (p1.x - p2.x) * (p3.y - p4.y) - (p1.y - p2.y) * (p3.x - p4.x)
      t == (p1.x - p3.x) * (p3.y - p4.y) - (p1.y - p3.y) * (p3.x - p4.x)
  IN IF d = 0 THEN <<>>
     ELSE <<[x |-> p1.x + MulDiv(p2.x - p1.x, t, d),
             y |-> p1.y + MulDiv(p2.y - p1.y, t, d)]>>

(***************************************************************************)
(* tan(angle / 2) of the angle between v1 and v2 (lengths m1, m2), as the  *)
(* fraction num / den: tan(a/2) = sin a / (1 + cos a).  den = 0 is the     *)
(* straight angle, where the code's Math.tan(PI / 2) is about 1.6e16.      *)
(***************************************************************************)
TanHalf(v1, v2, m1, m2) ==
  LET n == Abs(Cross(v1, v2))
      d == m1 * m2 + Dot(v1, v2)
      g == Gcd(n, Abs(d))
  IN IF g = 0 THEN [num |-> 0, den |-> 0]
     ELSE [num |-> n \div g, den |-> Max(d, 0) \div g]

\* d = radius / tanVal, guarded by Math.abs(tanVal) > 0.0001
TangentLength(radius, tan) ==
  IF tan.den = 0 THEN 0
  ELSE IF tan.num > tan.den \div 10000 THEN MulDiv(radius, tan.den, tan.num)
  ELSE 0

\* actualD * Math.abs(tanVal)
EffectiveRadius(actualD, tan) ==
  IF actualD = 0 THEN 0
  ELSE IF tan.den = 0 THEN actualD * 1000000
  ELSE MulDiv(actualD, tan.num, tan.den)

(***************************************************************************)
(* PathOp (beautify.ts:33-40).  A line carries no angle in the code; the   *)
(* model writes 0 there so that all ops have the same fields.              *)
(***************************************************************************)
LineOp(s, e, w, ci) ==
  [type |-> "line", start |-> s, end |-> e, width |-> w, angle |-> 0, cornerIndex |-> ci]

ArcOp(s, e, w, a, ci) ==
  [type |-> "arc", start |-> s, end |-> e, width |-> w, angle |-> a, cornerIndex |-> ci]

\* points[i] and orderedSegs[i].width with the code's 0-based index
PointAt(points, i) == points[i + 1]
WidthAt(widths, i) == widths[i + 1]

\* faulty variant of BaseRadius: the ratio is applied to half the width
BaseRadiusOfHalfWidth(maxLineWidth, ratioTenths) == MulDiv(maxLineWidth \div 2, ratioTenths, 10)

\* baseRadius = maxLineWidth * ratio; ratio is kept in tenths (30 is 3.0)
BaseRadius(maxLineWidth, ratioTenths) == MulDiv(maxLineWidth, ratioTenths, 10)

\* radius = baseRadius, or baseRadius * scale when cornerScales has the corner
CornerRadius(baseRadius, cornerScales, i) ==
  IF i \in DOMAIN cornerScales THEN MulDiv(baseRadius, cornerScales[i], ScaleOne)
  ELSE baseRadius

(***************************************************************************)
(* What the loop body reads for corner i (beautify.ts:83-103): the three   *)
(* points, the two widths and the radius.                                  *)
(***************************************************************************)
Corner(points, widths, settings, cornerScales, i) ==
  [pPrev |-> PointAt(points, i - 1),
   pCorner |-> PointAt(points, i),
   pNext |-> PointAt(points, i + 1),
   prevSegWidth |-> WidthAt(widths, i - 1),
   nextSegWidth |-> WidthAt(widths, i),
   maxLineWidth |-> Max(WidthAt(widths, i - 1), WidthAt(widths, i)),
   radius |-> CornerRadius(BaseRadius(Max(WidthAt(widths, i - 1), WidthAt(widths, i)),
                                      settings.cornerRadiusRatio),
                           cornerScales, i)]

\* actualD = Math.min(d, maxAllowedRadius) and effectiveRadius, from d
FilletOf(tan, d, maxAllowedRadius) ==
  [d |-> d, actualD |-> Min(d, maxAllowedRadius),
   effectiveRadius |-> EffectiveRadius(Min(d, maxAllowedRadius), tan)]

\* d, actualD and effectiveRadius of a corner whose half-angle tangent is tan
Fillet(tan, radius, maxAllowedRadius) ==
  FilletOf(tan, TangentLength(radius, tan), maxAllowedRadius)

(***************************************************************************)
(* The U-turn merge of corners i and i+1 (beautify.ts:105-183).  The       *)
(* result says whether the merge was made, the ops it pushed and the new   *)
(* currentStart.                                                           *)
(***************************************************************************)
NoMerge(cur) == [merged |-> FALSE, ops |-> <<>>, cur |-> cur]

\* lines 158-177: the optional lead-in line and the one merged arc
MergedArc(cur, pStart, pEnd, prevSegWidth, afterSegWidth, t_sweptAngle, i) ==
  [merged |-> TRUE,
   ops |-> (IF cur # pStart THEN <<LineOp(cur, pStart, prevSegWidth, i)>> ELSE <<>>)
           \o <<ArcOp(pStart, pEnd, afterSegWidth, t_sweptAngle, i)>>,
   cur |-> pEnd]

\* lines 132-157: the tests on the intersection and on the merged radius
MergeOps(c, pAfter, afterSegWidth, intersection, segLen2, t_v1, t_v2, t_mag1, t_mag2, f, i, cur) ==
  \* dInt1 < segLen * 10 and dInt2 < segLen * 10, on the squares
  IF ~(Dist2(intersection, c.pCorner) < 100 * segLen2
       /\ Dist2(intersection, c.pNext) < 100 * segLen2)
  THEN NoMerge(cur)
  \* a zero t_mag makes every later value NaN and the test false
  ELSE IF t_mag1 = 0 \/ t_mag2 = 0 THEN NoMerge(cur)
  ELSE IF ~(f.actualD > 1 /\ 2 * f.effectiveRadius >= c.maxLineWidth - 2)
  THEN NoMerge(cur)
  ELSE MergedArc(cur, lerp(intersection, c.pPrev, f.actualD, t_mag1),
                 lerp(intersection, pAfter, f.actualD, t_mag2),
                 c.prevSegWidth, afterSegWidth, getAngleBetween(Neg(t_v1), t_v2), i)

\* lines 138-149: t_mag1, t_mag2 and the radius clamped to 0.95 of the shorter
MergeFillet(c, pAfter, afterSegWidth, intersection, segLen2, t_v1, t_v2, t_mag1, t_mag2, i, cur) ==
  MergeOps(c, pAfter, afterSegWidth, intersection, segLen2, t_v1, t_v2, t_mag1, t_mag2,
           Fillet(TanHalf(t_v1, t_v2, t_mag1, t_mag2), c.radius,
                  Div(19 * Min(t_mag1, t_mag2), 20)),
           i, cur)

\* lines 136-137: the vectors from the intersection
MergeOn(c, pAfter, afterSegWidth, intersection, segLen2, i, cur) ==
  MergeFillet(c, pAfter, afterSegWidth, intersection, segLen2,
              Sub(c.pPrev, intersection), Sub(pAfter, intersection),
              Sqrt(Dot(Sub(c.pPrev, intersection), Sub(c.pPrev, intersection))),
              Sqrt(Dot(Sub(pAfter, intersection), Sub(pAfter, intersection))),
              i, cur)

\* lines 110-131: segment length, turning directions, intersection
MergeAt(c, pAfter, afterSegWidth, i, cur) ==
  LET segLen2 == Dist2(c.pCorner, c.pNext)
      vMid == Sub(c.pNext, c.pCorner)
      angle1 == getAngleBetween(Neg(Sub(c.pPrev, c.pCorner)), vMid)
      angle2 == getAngleBetween(vMid, Sub(pAfter, c.pNext))
      inter == getLineIntersection(c.pPrev, c.pCorner, c.pNext, pAfter)
  IN \* segLen < radius * 1.5, compared on the squares
     IF ~(4 * segLen2 < 9 * c.radius * c.radius) THEN NoMerge(cur)
     ELSE IF ~(angle1 * angle2 > 0 /\ Abs(angle1) > 1 /\ Abs(angle2) > 1)
     THEN NoMerge(cur)
     ELSE IF inter = <<>> THEN NoMerge(cur)
     ELSE MergeOn(c, pAfter, afterSegWidth, inter[1], segLen2, i, cur)

\* faulty variant of TryMerge: the next corner is not looked up in badCorners
TryMergeAcrossBad(c, points, widths, settings, badCorners, cornerScales, i, cur) ==
  IF ~(settings.mergeTransitionSegments /\ i < Len(points) - 2
       /\ i \notin DOMAIN cornerScales)
  THEN NoMerge(cur)
  ELSE MergeAt(c, PointAt(points, i + 2), WidthAt(widths, i + 1), i, cur)

TryMerge(c, points, widths, settings, badCorners, cornerScales, i, cur) ==
  IF ~(settings.mergeTransitionSegments /\ i < Len(points) - 2
       /\ i \notin DOMAIN cornerScales)
  THEN NoMerge(cur)
  ELSE IF (i + 1) \in badCorners THEN NoMerge(cur)
  ELSE MergeAt(c, PointAt(points, i + 2), WidthAt(widths, i + 1), i, cur)

(***************************************************************************)
(* The ordinary corner (beautify.ts:186-261): the ops pushed for corner i  *)
(* and the new currentStart.                                               *)
(***************************************************************************)
\* lines 232-253: the line up to the arc's start, then the arc
Rounded(cur, pStart, pEnd, prevSegWidth, nextSegWidth, sweptAngle, i) ==
  [ops |-> <<LineOp(cur, pStart, prevSegWidth, i),
             ArcOp(pStart, pEnd, nextSegWidth, sweptAngle, i)>>,
   cur |-> pEnd]

\* faulty variant of NormalOps: forceArc also overrides the width floor
NormalOpsForcedPastFloor(c, v1, v2, mag1, mag2, f, settings, i, cur) ==
  LET clampSkip == f.d >= 1 /\ 20 * f.actualD < 19 * f.d /\ ~settings.forceArc
      widthSkip == ~clampSkip /\ ~settings.forceArc
                     /\ 2 * f.effectiveRadius < c.maxLineWidth - 2
      isSkipped == clampSkip \/ widthSkip
  IN IF f.actualD > 1 /\ ~isSkipped
     THEN Rounded(cur, lerp(c.pCorner, c.pPrev, f.actualD, mag1),
                  lerp(c.pCorner, c.pNext, f.actualD, mag2),
                  c.prevSegWidth, c.nextSegWidth, getAngleBetween(Neg(v1), v2), i)
     ELSE [ops |-> <<LineOp(cur, c.pCorner, c.prevSegWidth, i)>>, cur |-> c.pCorner]

\* lines 208-261: the two skips, then the arc or the straight line to the corner
NormalOps(c, v1, v2, mag1, mag2, f, settings, i, cur) ==
  LET clampSkip == f.d >= 1 /\ 20 * f.actualD < 19 * f.d /\ ~settings.forceArc
      widthSkip == ~clampSkip /\ 2 * f.effectiveRadius < c.maxLineWidth - 2
      isSkipped == clampSkip \/ widthSkip
  IN IF f.actualD > 1 /\ ~isSkipped
     THEN Rounded(cur, lerp(c.pCorner, c.pPrev, f.actualD, mag1),
                  lerp(c.pCorner, c.pNext, f.actualD, mag2),
                  c.prevSegWidth, c.nextSegWidth, getAngleBetween(Neg(v1), v2), i)
     ELSE [ops |-> <<LineOp(cur, c.pCorner, c.prevSegWidth, i)>>, cur |-> c.pCorner]

\* lines 190-206: the radius clamped to 0.45 of the shorter leg
NormalFillet(c, v1, v2, mag1, mag2, settings, i, cur) ==
  NormalOps(c, v1, v2, mag1, mag2,
            Fillet(TanHalf(v1, v2, mag1, mag2), c.radius, Div(9 * Min(mag1, mag2), 20)),
            settings, i, cur)

NormalCorner(c, settings, i, cur) ==
  NormalFillet(c, Sub(c.pPrev, c.pCorner), Sub(c.pNext, c.pCorner),
               Sqrt(Dot(Sub(c.pPrev, c.pCorner), Sub(c.pPrev, c.pCorner))),
               Sqrt(Dot(Sub(c.pNext, c.pCorner), Sub(c.pNext, c.pCorner))),
               settings, i, cur)

(***************************************************************************)
(* generatePathOps (beautify.ts:50-275): the loop over corners             *)
(* i = 1 .. points.length - 2, then the closing line.                      *)
(***************************************************************************)
\* what one iteration on a corner that is not bad pushes, and the next i
CornerStep(i, m, n) ==
  IF m.merged THEN [next |-> i + 2, cur |-> m.cur, ops |-> m.ops]
  ELSE [next |-> i + 1, cur |-> n.cur, ops |-> n.ops]

\* the merge attempt, then the ordinary corner when no merge was made
CornerOps(c, points, widths, settings, badCorners, cornerScales, i, cur) ==
  CornerStep(i, TryMerge(c, points, widths, settings, badCorners, cornerScales, i, cur),
             NormalCorner(c, settings, i, cur))

RECURSIVE CornerLoop(_, _, _, _, _, _, _, _)
\* the loop goes on after an iteration
Advance(points, widths, settings, badCorners, cornerScales, ops, step) ==
  CornerLoop(points, widths, settings, badCorners, cornerScales, step.next, step.cur,
             ops \o step.ops)

CornerLoop(points, widths, settings, badCorners, cornerScales, i, cur, ops) ==
  IF i >= Len(points) - 1
  THEN Append(ops, LineOp(cur, PointAt(points, Len(points) - 1),
                          WidthAt(widths, Len(widths) - 1), Len(points) - 1))
  ELSE IF i \in badCorners
  THEN CornerLoop(points, widths, settings, badCorners, cornerScales, i + 1,
                  PointAt(points, i),
                  Append(ops, LineOp(cur, PointAt(points, i), WidthAt(widths, i - 1), i)))
  ELSE Advance(points, widths, settings, badCorners, cornerScales, ops,
               CornerOps(Corner(points, widths, settings, cornerScales, i),
                         points, widths, settings, badCorners, cornerScales, i, cur))

generatePathOps(points, widths, settings, badCorners, cornerScales) ==
  IF Len(points) < 3 THEN <<>>
  ELSE CornerLoop(points, widths, settings, badCorners, cornerScales, 1, points[1], <<>>)

(***************************************************************************)
(* drc.ts runDrcCheckAndParse (69-121).  A result of eda.pcb_Drc.check is  *)
(* modelled by its shape and the ids its issues name:                      *)
(*   kind = "throw"     the call rejects (the catch returns the empty set) *)
(*   kind = "nonarray"  a value that is not an array (ids it may hold are  *)
(*                      never read)                                        *)
(*   kind = "array"     categories whose issues name the ids               *)
(***************************************************************************)
\* faulty variant of runDrcCheckAndParse: ids are read from a value of any shape
runDrcCheckAndParseUnguarded(settings, result) ==
  IF ~settings.enableDRC THEN {} ELSE result.ids

runDrcCheckAndParse(settings, result) ==
  IF ~settings.enableDRC THEN {}
  ELSE IF result.kind = "throw" THEN {}
  ELSE IF result.kind # "array" THEN {}
  ELSE result.ids

\* const maxDrcRetries = settings.drcRetryCount || 4   (beautify.ts:650)
maxDrcRetries(settings) ==
  IF settings.drcRetryCount = 0 THEN DefaultRetries ELSE settings.drcRetryCount

\* ctx.cornerScales.get(idx) ?? 1.0   (beautify.ts:682)
currentScale(cornerScales, idx) ==
  IF idx \in DOMAIN cornerScales THEN cornerScales[idx] ELSE ScaleOne

\* faulty variant of nextScale: the scale is kept, not halved
nextScaleKept(scale) == scale

\* currentScale * 0.5   (beautify.ts:683)
nextScale(scale) == scale \div 2

\* cornerScales.set(idx, v)
MapSet(f, k, v) == [j \in DOMAIN f \cup {k} |-> IF j = k THEN v ELSE f[j]]

\* faulty variant of MarkId: always halves, whatever the attempt and the floor
MarkIdHalving(ctx, mark, id, violatedIds, isFinalAttempt) ==
  IF id \notin violatedIds \/ id \notin DOMAIN ctx.idToCornerMap THEN mark
  ELSE [mark EXCEPT !.cornerScales =
                      MapSet(@, ctx.idToCornerMap[id],
                             nextScale(currentScale(@, ctx.idToCornerMap[id]))),
                    !.needsUpdate = TRUE]

(***************************************************************************)
(* One iteration of "for (const id of ctx.createdIds)" (beautify.ts:672-   *)
(* 697) on the context ctx; mark is the result so far:                     *)
(* [badCorners, cornerScales, needsUpdate].                                *)
(***************************************************************************)
MarkId(ctx, mark, id, violatedIds, isFinalAttempt) ==
  IF id \notin violatedIds THEN mark
  ELSE IF id \notin DOMAIN ctx.idToCornerMap THEN mark
  ELSE LET idx == ctx.idToCornerMap[id]
           nxt == nextScale(currentScale(mark.cornerScales, idx))
       IN IF isFinalAttempt \/ nxt < ScaleFloor
          THEN [mark EXCEPT !.badCorners = @ \cup {idx}, !.needsUpdate = TRUE]
          ELSE [mark EXCEPT !.cornerScales = MapSet(@, idx, nxt), !.needsUpdate = TRUE]

RECURSIVE MarkIds(_, _, _, _, _)
MarkIds(ctx, mark, k, violatedIds, isFinalAttempt) ==
  IF k > Len(ctx.createdIds) THEN mark
  ELSE MarkIds(ctx, MarkId(ctx, mark, ctx.createdIds[k], violatedIds, isFinalAttempt),
               k + 1, violatedIds, isFinalAttempt)

\* faulty variant of MarkPath: any reported violation makes the path need an update
MarkPathAnyViolation(ctx, violatedIds, isFinalAttempt) ==
  MarkIds(ctx,
          [badCorners |-> ctx.badCorners, cornerScales |-> ctx.cornerScales,
           needsUpdate |-> violatedIds # {}],
          1, violatedIds, isFinalAttempt)

\* the body of "for (const ctx of activePaths)" for one context
MarkPath(ctx, violatedIds, isFinalAttempt) ==
  MarkIds(ctx,
          [badCorners |-> ctx.badCorners, cornerScales |-> ctx.cornerScales,
           needsUpdate |-> FALSE],
          1, violatedIds, isFinalAttempt)

(***************************************************************************)
(* State of one beautifyRouting call, from the optimistic pass on          *)
(* (beautify.ts:636-761).                                                  *)
(***************************************************************************)
VARIABLES
  settings,       \* the settings read at line 282
  activePaths,    \* PathContext[]: points, widths of orderedSegs, createdIds,
                  \*   idToCornerMap, badCorners, cornerScales
  host,           \* primitives this pass holds in the host: id -> [path, type]
  pc,             \* the host call the pass is about to issue, or "done" / "aborted"
  phase,          \* "optimistic" (636-645), "redraw" (708-730) or "end"
  pathIdx,        \* the context being deleted / committed
  opIdx,          \* commitOps: position in ops
  pendingOps,     \* commitOps: ops
  drcAttempt,     \* line 649
  pathsToRepair,  \* line 667
  lastCheck,      \* history: what the last check cycle saw (see CheckSeen)
  faults,         \* host calls that have thrown or returned no id so far
  checks,         \* history: eda.pcb_Drc.check calls issued
  regen,          \* history: per path, regenerations made by the DRC loop
  plan,           \* history: per path, creates its latest commitOps has to issue
  callLog         \* history: host calls issued since the last check was issued

vars ==
  <<settings, activePaths, host, pc, phase, pathIdx, opIdx, pendingOps,
    drcAttempt, pathsToRepair, lastCheck, faults, checks, regen, plan,
    callLog>>

(***************************************************************************)
(* State of the path extraction of one net/layer group                     *)
(* (beautify.ts:396-493).                                                  *)
(***************************************************************************)
VARIABLES
  segs,           \* line 396: the group's segments, in the order the host gave them
  connections,    \* line 407: pointKey -> the segments with an end at that key
  used,           \* line 420: ids of the segments already put in a path
  points,         \* line 426: the points of the path being walked
  orderedSegs,    \* line 427: its segments
  startIdx,       \* line 422: position of startSeg in segs
  walk,           \* "idle", "index" (408-417), "start" (422), "extend" (432-491), "done"
  extracted,      \* the paths the group contributed (points, orderedSegs), line 493
  run,            \* history: 1 for the first extraction, 2 for one on a reordered list
  firstExtracted  \* history: the paths the first extraction produced

extractVars ==
  <<segs, connections, used, points, orderedSegs, startIdx, walk, extracted,
    run, firstExtracted>>

\* no extraction is going on
ExtractIdle ==
  /\ segs = <<>>
  /\ connections = <<>>
  /\ used = {}
  /\ points = <<>>
  /\ orderedSegs = <<>>
  /\ startIdx = 0
  /\ walk = "idle"
  /\ extracted = <<>>
  /\ run = 0
  /\ firstExtracted = {}

(***************************************************************************)
(* State of the host's lines and storage and of one width-transition pass  *)
(* (widthTransition.ts:128-542).                                           *)
(***************************************************************************)
VARIABLES
  lineStore,      \* the host's line primitives: id -> id, net, layer, start, end, width
  lastId,         \* the last primitive id the host has given out
  savedData,      \* sys_Storage: the saved TransitionData records (point, ids)
  wtSettings,     \* line 129: the settings the pass reads
  tracks,         \* line 149: allTracks, as the host returned them
  groupKeys,      \* line 190: the keys of netLayerMap in insertion order
  groupIdx,       \* line 217: the group being processed
  recordsMap,     \* line 207: point key -> ids
  processedPointsInCurrentRun,   \* line 212
  pairI, pairJ,   \* lines 242-243: the loop over the pairs of the group
  pendingShortens,       \* line 225, in insertion order
  pendingTransitions,    \* line 226
  shortenedTrackEndpoints,   \* line 413
  stepIdx,        \* position in the loops of steps 2 and 3 (lines 415, 458)
  wtpc,           \* "idle", "analyse" (242-410), "shorten" (415-455),
                  \*   "generate" (458-531) or "returned"
  passNo,         \* history: passes begun on this board
  passKind,       \* history: "first", "again" (a pass on the board the one
                  \*   before left) or "alone" (the first pass, on one group only)
  firstBoard,     \* history: the board the first pass began on
  keyLog,         \* history: deletes of saved ids and creates of sub-segments,
                  \*   with the point key and the group they were made for
  firstLog        \* history: keyLog of the first pass

transitionVars ==
  <<lineStore, lastId, savedData, wtSettings, tracks, groupKeys, groupIdx, recordsMap,
    processedPointsInCurrentRun, pairI, pairJ, pendingShortens,
    pendingTransitions, shortenedTrackEndpoints, stepIdx, wtpc, passNo,
    passKind, firstBoard, keyLog, firstLog>>

\* no width-transition pass is going on
TransitionIdle ==
  /\ lineStore = <<>>
  /\ lastId = 0
  /\ savedData = <<>>
  /\ wtSettings = <<>>
  /\ tracks = <<>>
  /\ groupKeys = <<>>
  /\ groupIdx = 0
  /\ recordsMap = <<>>
  /\ processedPointsInCurrentRun = {}
  /\ pairI = 0
  /\ pairJ = 0
  /\ pendingShortens = <<>>
  /\ pendingTransitions = <<>>
  /\ shortenedTrackEndpoints = <<>>
  /\ stepIdx = 0
  /\ wtpc = "idle"
  /\ passNo = 0
  /\ passKind = "none"
  /\ firstBoard = <<>>
  /\ keyLog = <<>>
  /\ firstLog = <<>>

(***************************************************************************)
(* The commands of the extension (index.ts:26-120) as the host starts      *)
(* them: each is an async function, so a second command can be started     *)
(* while the first one awaits a host call.                                 *)
(***************************************************************************)
VARIABLES
  cmds,           \* command invocation -> its kind, where it is and the
                  \*   create/delete calls it still has to issue
  undoLock,       \* snapshot.ts:14: eda[UNDO_LOCK_KEY]
  begun,          \* history: the invocations that have begun a pass and have
                  \*   not finished it, in the order they began
  sinkLog         \* history: the create and delete calls the host has received

commandVars == <<cmds, undoLock, begun, sinkLog>>

\* no command has been started
CommandIdle ==
  /\ cmds = <<>>
  /\ undoLock = FALSE
  /\ begun = <<>>
  /\ sinkLog = <<>>

(***************************************************************************)
(* One call of generatePathOps (beautify.ts:50-275) taken one iteration of *)
(* its corner loop at a time.                                              *)
(***************************************************************************)
VARIABLES
  smoothing,      \* the arguments of the call: points, widths, settings,
                  \*   badCorners, cornerScales
  loopI,          \* the loop index i; 0 once the closing line is pushed
  currentStart,   \* currentStart
  pathOps,        \* ops
  cornerLog       \* history: what each iteration on a corner computed

smoothVars == <<smoothing, loopI, currentStart, pathOps, cornerLog>>

\* no call of generatePathOps is under way
SmoothIdle ==
  /\ smoothing = <<>>
  /\ loopI = 0
  /\ currentStart = <<>>
  /\ pathOps = <<>>
  /\ cornerLog = <<>>

(***************************************************************************)
(* The primitives a beautifyRouting call was given (beautify.ts:300-347)   *)
(* and what becomes of them as its paths are kept (493-566) and drawn      *)
(* (636-645).                                                              *)
(***************************************************************************)
VARIABLES
  selection,      \* line 300: the primitives handed over, in the host's order
  present,        \* ids of the primitives of selection the host still holds
  handled,        \* paths of extracted whose originals have been deleted and
                  \*   that have been pushed to activePaths (lines 493-566)
  committed       \* paths of activePaths whose ops commitOps has created

originalVars == <<selection, present, handled, committed>>

\* no call is working on original primitives
OriginalsIdle ==
  /\ selection = <<>>
  /\ present = {}
  /\ handled = 0
  /\ committed = 0

(***************************************************************************)
(* The automatic snapshots and the undo command (snapshot.ts:33-47,        *)
(* 312-400, 418-596, 647-720).                                             *)
(***************************************************************************)
VARIABLES
  autoLists,      \* sys_Storage, per PCB: pcbData.auto, newest first
  pcbContent,     \* per PCB: the routing the board holds (a version number)
  currentPcb,     \* the PCB the editor shows; 0 when there is none
  lastRestoredId, \* snapshot.ts:12: eda[LAST_RESTORED_KEY]; 0 stands for null
  undoers,        \* invocation of undoLastOperation -> where it is and what
                  \*   it has read
  undone,         \* history: the restores made by undoLastOperation
  made,           \* history: snapshots and board versions made so far
  calls           \* history: invocations of undoLastOperation begun so far

snapshotVars ==
  <<autoLists, pcbContent, currentPcb, lastRestoredId, undoers, undone, made, calls>>

\* nothing of the snapshot module is in use
SnapshotIdle ==
  /\ autoLists = <<>>
  /\ pcbContent = <<>>
  /\ currentPcb = 0
  /\ lastRestoredId = 0
  /\ undoers = <<>>
  /\ undone = <<>>
  /\ made = 0
  /\ calls = 0

\* the state outside the beautifyRouting call modelled by Init and Next
others ==
  <<extractVars, transitionVars, commandVars, smoothVars, originalVars, snapshotVars>>

OthersIdle ==
  /\ ExtractIdle
  /\ TransitionIdle
  /\ CommandIdle
  /\ SmoothIdle
  /\ OriginalsIdle
  /\ SnapshotIdle

\* the state outside the path extraction, outside a width-transition pass
\* and outside the starting of commands
outsideExtraction ==
  <<vars, transitionVars, commandVars, smoothVars, originalVars, snapshotVars>>
outsideTransition ==
  <<vars, extractVars, commandVars, smoothVars, originalVars, snapshotVars>>
outsideCommands ==
  <<vars, extractVars, transitionVars, smoothVars, originalVars, snapshotVars>>
outsideOriginals == <<vars, transitionVars, commandVars, smoothVars, snapshotVars>>
outsideSmoother ==
  <<vars, extractVars, transitionVars, commandVars, originalVars, snapshotVars>>

(***************************************************************************)
(* Inputs: the extracted paths a pass may work on, in 1/CoordUnit units.   *)
(*   PathL  an L of two legs of 20, width 2: the corner takes the full arc *)
(*   PathU  a short stub between two bends of the same direction, width 10 *)
(*          (a U-turn merge when mergeTransitionSegments is on)            *)
(*   PathS  an L of two legs of 5, width 2: the radius is length-clamped   *)
(*   PathW  PathU with a second short stub: corners 1, 2 and corners 2, 3  *)
(*          can each be merged                                             *)
(***************************************************************************)
PathL == [points |-> <<Pt(0, 0), Pt(400, 0), Pt(400, 400)>>, widths |-> <<40, 40>>]
PathU == [points |-> <<Pt(0, 0), Pt(800, 0), Pt(860, 80), Pt(860, 880)>>,
          widths |-> <<200, 200, 200>>]
PathS == [points |-> <<Pt(0, 0), Pt(100, 0), Pt(100, 100)>>, widths |-> <<40, 40>>]
PathW ==
  [points |-> <<Pt(0, 0), Pt(800, 0), Pt(860, 80), Pt(860, 160), Pt(260, 960)>>,
   widths |-> <<200, 200, 200, 200>>]
Catalog == <<PathL, PathS, PathU, PathW>>

\* a pass works on one catalog path, or on the first k <= MaxPaths of them
Selections ==
  {<<Catalog[k]>> : k \in {j \in 1..Len(Catalog) : MaxPaths >= 1}}
  \cup {SubSeq(Catalog, 1, k) : k \in 0..Min(MaxPaths, Len(Catalog))}

\* activePaths.push({...})   (beautify.ts:555-566)
NewContext(path) ==
  [points |-> path.points, widths |-> path.widths, createdIds |-> <<>>,
   idToCornerMap |-> <<>>, badCorners |-> {}, cornerScales |-> <<>>]

SettingsSpace ==
  [drcRetryCount : 0..MaxRetryCount, enableDRC : BOOLEAN, forceArc : BOOLEAN,
   mergeTransitionSegments : BOOLEAN, cornerRadiusRatio : {30}]

(***************************************************************************)
(* The passes explored.  forceArc and mergeTransitionSegments leave their  *)
(* defaults (true and false) only in a pass on the one path whose emitted  *)
(* primitives they change: PathS is the only path with a clamped corner,   *)
(* PathU and PathW the only ones with short transition segments (PathW is  *)
(* there for the merge, so it is taken with the merge on).                 *)
(***************************************************************************)
Scenarios ==
  {sc \in [settings : SettingsSpace, selection : Selections] :
     /\ ~sc.settings.forceArc => sc.selection = <<PathS>>
     /\ sc.settings.mergeTransitionSegments => sc.selection \in {<<PathU>>, <<PathW>>}
     /\ sc.selection = <<PathW>> => sc.settings.mergeTransitionSegments}

\* host calls are made to fail or to return no id in passes on a single path
\* of at most four points
FaultBudget(paths) ==
  IF Len(paths) = 1 /\ Len(paths[1].points) <= 4 THEN MaxFaults ELSE 0

OpsOf(ctx, st) ==
  generatePathOps(ctx.points, ctx.widths, st, ctx.badCorners, ctx.cornerScales)

\* commitOps skips an op when dist(item.start, item.end) < 0.001 (line 576)
IsDegenerate(op) == Dist2(op.start, op.end) = 0

RealOps(ops) == {k \in 1..Len(ops) : ~IsDegenerate(ops[k])}

\* the first op at or after position k that commitOps submits, or Len(ops) + 1
NextReal(ops, k) ==
  IF \E j \in RealOps(ops) : j >= k
  THEN CHOOSE j \in RealOps(ops) : j >= k /\ \A i \in RealOps(ops) : i >= k => j <= i
  ELSE Len(ops) + 1

(***************************************************************************)
(* Where control goes between two host calls.  A control value is          *)
(* [pc, phase, pathIdx, opIdx, pendingOps, drcAttempt].                    *)
(***************************************************************************)
Control(c, ph, p, k, ops, a) ==
  [pc |-> c, phase |-> ph, pathIdx |-> p, opIdx |-> k, pendingOps |-> ops,
   drcAttempt |-> a]

\* the DRC block is left (line 738): next comes "if (settings.syncWidthTransition)"
AfterLoop(st, a) == Control("sync", "end", 0, 0, <<>>, a)

\* faulty variant of LoopTest: one more cycle is allowed
LoopTestBeyond(st, a) ==
  IF a <= maxDrcRetries(st) + 1 THEN Control("check", "loop", 0, 0, <<>>, a)
  ELSE AfterLoop(st, a)

\* "while (drcAttempt <= maxDrcRetries)" (line 652)
LoopTest(st, a) ==
  IF a <= maxDrcRetries(st) THEN Control("check", "loop", 0, 0, <<>>, a)
  ELSE AfterLoop(st, a)

\* "if (settings.enableDRC && activePaths.length > 0)" (line 648)
LoopEntry(st, paths) ==
  IF st.enableDRC /\ Len(paths) > 0 THEN LoopTest(st, 0) ELSE AfterLoop(st, 0)

\* commitOps is entered for context p: it first awaits getCurrentBoardInfo
StartCommit(st, paths, ph, p, a) == Control("boardInfo", ph, p, 0, <<>>, a)

\* faulty variant of StartRedraw: the old primitives are not deleted first
StartRedrawKeepingOld(st, paths, p, a) == StartCommit(st, paths, "redraw", p, a)

\* the redraw of context p begins (lines 709-719)
StartRedraw(st, paths, p, a) ==
  IF Len(paths[p].createdIds) > 0 THEN Control("deleteLine", "redraw", p, 0, <<>>, a)
  ELSE StartCommit(st, paths, "redraw", p, a)

\* commitOps has returned for context p
PathDone(st, paths, repair, ph, p, a) ==
  IF ph = "optimistic"
  THEN IF p < Len(paths) THEN StartCommit(st, paths, "optimistic", p + 1, a)
       ELSE LoopEntry(st, paths)
  ELSE IF \E q \in repair : q > p
       THEN StartRedraw(st, paths, CHOOSE q \in repair : q > p /\ \A r \in repair : r > p => q <= r, a)
       ELSE LoopTest(st, a + 1)

\* commitOps moves on to the op at position k of ops, or returns
CommitFrom(st, paths, repair, ph, p, ops, k, a) ==
  IF NextReal(ops, k) <= Len(ops) THEN Control("create", ph, p, NextReal(ops, k), ops, a)
  ELSE PathDone(st, paths, repair, ph, p, a)

SetControl(c) ==
  /\ pc' = c.pc
  /\ phase' = c.phase
  /\ pathIdx' = c.pathIdx
  /\ opIdx' = c.opIdx
  /\ pendingOps' = c.pendingOps
  /\ drcAttempt' = c.drcAttempt

\* no check cycle is being worked on
NoCheck == [kind |-> "none", reported |-> FALSE, hits |-> <<>>]

Init ==
  /\ \E sc \in Scenarios :
       /\ settings = sc.settings
       /\ activePaths = [k \in 1..Len(sc.selection) |-> NewContext(sc.selection[k])]
  /\ host = <<>>
  /\ LET c == IF Len(activePaths) > 0
              THEN StartCommit(settings, activePaths, "optimistic", 1, 0)
              ELSE LoopEntry(settings, activePaths)
     IN /\ pc = c.pc
        /\ phase = c.phase
        /\ pathIdx = c.pathIdx
        /\ opIdx = c.opIdx
        /\ pendingOps = c.pendingOps
        /\ drcAttempt = c.drcAttempt
  /\ pathsToRepair = {}
  /\ lastCheck = NoCheck
  /\ faults = 0
  /\ checks = 0
  /\ regen = [p \in 1..Len(activePaths) |-> 0]
  /\ plan = [p \in 1..Len(activePaths) |-> 0]
  /\ callLog = <<>>
  /\ OthersIdle

(***************************************************************************)
(* commitOps (beautify.ts:572-634).                                        *)
(***************************************************************************)
Call(name, p) == [call |-> name, path |-> p]

\* the record of the last check is kept until the next host call returns
Forget == lastCheck' = NoCheck

\* generatePathOps (lines 638-643, 722-727), then commitOps up to its first
\* await, eda.dmt_Board.getCurrentBoardInfo() (line 574), and on to the first op
BoardInfo ==
  /\ pc = "boardInfo"
  /\ LET ops == OpsOf(activePaths[pathIdx], settings)
     IN /\ plan' = [plan EXCEPT ![pathIdx] = Cardinality(RealOps(ops))]
        /\ SetControl(CommitFrom(settings, activePaths, pathsToRepair, phase, pathIdx,
                                 ops, 1, drcAttempt))
  /\ regen' = IF phase = "redraw" THEN [regen EXCEPT ![pathIdx] = @ + 1] ELSE regen
  /\ callLog' = Append(callLog, Call("boardInfo", pathIdx))
  /\ UNCHANGED <<settings, activePaths, host, pathsToRepair, faults, checks>>
  /\ Forget
  /\ UNCHANGED others

\* lines 628-631: the id is recorded with the op's cornerIndex
Recorded(ctx, id, op) ==
  [ctx EXCEPT !.createdIds = Append(@, id),
              !.idToCornerMap = MapSet(@, id, op.cornerIndex)]

(***************************************************************************)
(* Identifiers are opaque to the pass, so the model is free to say which   *)
(* fresh id the host hands out: the smallest free one in the block of ten  *)
(* of the path the primitive is created for (11.., 21.., ...), or, when    *)
(* the create call returns no usable id, the smallest free one above 100.  *)
(***************************************************************************)
SmallestFree(h, from) ==
  LET free == {id \in from..(from + Cardinality(DOMAIN h)) : id \notin DOMAIN h}
  IN CHOOSE id \in free : \A j \in free : id <= j

FreshId(h, p) == SmallestFree(h, 10 * p + 1)

UnreturnedId(h) == SmallestFree(h, 101)

\* the host stores the primitive under the id it hands out
Stored(h, id, p, op) == MapSet(h, id, [path |-> p, type |-> op.type])

\* lines 581-631: create resolves to a value that carries the new id
CreateOk ==
  /\ pc = "create"
  /\ LET op == pendingOps[opIdx]
         paths == [activePaths EXCEPT ![pathIdx] = Recorded(@, FreshId(host, pathIdx), op)]
     IN /\ activePaths' = paths
        /\ host' = Stored(host, FreshId(host, pathIdx), pathIdx, op)
        /\ SetControl(CommitFrom(settings, paths, pathsToRepair, phase, pathIdx,
                                 pendingOps, opIdx + 1, drcAttempt))
  /\ callLog' = Append(callLog, Call("create", pathIdx))
  /\ UNCHANGED <<settings, pathsToRepair, faults, checks, regen, plan>>
  /\ Forget
  /\ UNCHANGED others

\* create resolves to a value without id, primitiveId or getState_PrimitiveId:
\* newId stays null and nothing is recorded
CreateNoId ==
  /\ pc = "create"
  /\ faults < FaultBudget(activePaths)
  /\ faults' = faults + 1
  /\ host' = Stored(host, UnreturnedId(host), pathIdx, pendingOps[opIdx])
  /\ callLog' = Append(callLog, Call("create", pathIdx))
  /\ SetControl(CommitFrom(settings, activePaths, pathsToRepair, phase, pathIdx,
                           pendingOps, opIdx + 1, drcAttempt))
  /\ UNCHANGED <<settings, activePaths, pathsToRepair, checks,
                 regen, plan>>
  /\ Forget
  /\ UNCHANGED others

\* create rejects: nothing in commitOps or in the loops around it catches, so
\* control lands in the catch of lines 754-757
CreateThrow ==
  /\ pc = "create"
  /\ faults < FaultBudget(activePaths)
  /\ faults' = faults + 1
  /\ callLog' = Append(callLog, Call("create", pathIdx))
  /\ SetControl(Control("aborted", "end", pathIdx, opIdx, pendingOps, drcAttempt))
  /\ UNCHANGED <<settings, activePaths, host, pathsToRepair, checks, regen, plan>>
  /\ Forget
  /\ UNCHANGED others

(***************************************************************************)
(* The redraw of one context (beautify.ts:709-730).                        *)
(***************************************************************************)
\* ctx.createdIds = []; ctx.idToCornerMap.clear()   (lines 717-718)
Cleared(ctx) == [ctx EXCEPT !.createdIds = <<>>, !.idToCornerMap = <<>>]

Range(seq) == {seq[k] : k \in 1..Len(seq)}

\* what a delete call of one primitive kind leaves in the host
Removed(h, ids, type) ==
  [id \in {j \in DOMAIN h : ~(j \in ids /\ h[j].type = type)} |-> h[id]]

\* line 713: eda.pcb_PrimitiveLine.delete(ctx.createdIds) resolves
DeleteLineOk ==
  /\ pc = "deleteLine"
  /\ host' = Removed(host, Range(activePaths[pathIdx].createdIds), "line")
  /\ callLog' = Append(callLog, Call("deleteLine", pathIdx))
  /\ pc' = "deleteArc"
  /\ UNCHANGED <<settings, activePaths, phase, pathIdx, opIdx, pendingOps,
                 drcAttempt, pathsToRepair, faults, checks, regen,
                 plan>>
  /\ Forget
  /\ UNCHANGED others

\* line 713 rejects: the catch of line 716 swallows it, line 714 is not reached
DeleteLineThrow ==
  /\ pc = "deleteLine"
  /\ faults < FaultBudget(activePaths)
  /\ faults' = faults + 1
  /\ LET paths == [activePaths EXCEPT ![pathIdx] = Cleared(@)]
     IN /\ activePaths' = paths
        /\ SetControl(StartCommit(settings, paths, "redraw", pathIdx, drcAttempt))
  /\ callLog' = Append(callLog, Call("deleteLine", pathIdx))
  /\ UNCHANGED <<settings, host, pathsToRepair, checks,
                 regen, plan>>
  /\ Forget
  /\ UNCHANGED others

\* line 714: eda.pcb_PrimitiveArc.delete(ctx.createdIds) resolves
DeleteArcOk ==
  /\ pc = "deleteArc"
  /\ host' = Removed(host, Range(activePaths[pathIdx].createdIds), "arc")
  /\ LET paths == [activePaths EXCEPT ![pathIdx] = Cleared(@)]
     IN /\ activePaths' = paths
        /\ SetControl(StartCommit(settings, paths, "redraw", pathIdx, drcAttempt))
  /\ callLog' = Append(callLog, Call("deleteArc", pathIdx))
  /\ UNCHANGED <<settings, pathsToRepair, faults, checks,
                 regen, plan>>
  /\ Forget
  /\ UNCHANGED others

\* line 714 rejects: swallowed by the catch of line 716
DeleteArcThrow ==
  /\ pc = "deleteArc"
  /\ faults < FaultBudget(activePaths)
  /\ faults' = faults + 1
  /\ LET paths == [activePaths EXCEPT ![pathIdx] = Cleared(@)]
     IN /\ activePaths' = paths
        /\ SetControl(StartCommit(settings, paths, "redraw", pathIdx, drcAttempt))
  /\ callLog' = Append(callLog, Call("deleteArc", pathIdx))
  /\ UNCHANGED <<settings, host, pathsToRepair, checks,
                 regen, plan>>
  /\ Forget
  /\ UNCHANGED others

(***************************************************************************)
(* One check cycle up to its first host call (beautify.ts:653-719).        *)
(***************************************************************************)
ForeignId == 0

\* the sets of ids one check may report: at most MaxViolations ids, each a
\* primitive this pass holds in the host or one the pass did not create
ViolationSets ==
  {v \in SUBSET (DOMAIN host \cup {ForeignId}) : Cardinality(v) <= MaxViolations}

\* a non-array value holds nothing or (under some other shape) every id
OracleResults ==
  {[kind |-> "throw", ids |-> {}]}
  \cup {[kind |-> "nonarray", ids |-> v] : v \in {{}, DOMAIN host}}
  \cup {[kind |-> "array", ids |-> v] : v \in ViolationSets}

\* per corner index of ctx, how many of its created ids are in violatedIds
Hits(ctx, ids) ==
  LET bad == {id \in Range(ctx.createdIds) \cap ids : id \in DOMAIN ctx.idToCornerMap}
  IN [idx \in {ctx.idToCornerMap[id] : id \in bad} |->
        Cardinality({id \in bad : ctx.idToCornerMap[id] = idx})]

\* history of one check: the shape of the oracle's result, whether the parsed
\* violation set is non-empty, and the hits per context and corner index
CheckSeen(result, ids, paths) ==
  [kind |-> result.kind, reported |-> ids # {},
   hits |-> [p \in 1..Len(paths) |-> Hits(paths[p], ids)]]

\* lines 670-701 for every context
Marked(paths, ids, isFinalAttempt) ==
  [p \in 1..Len(paths) |-> MarkPath(paths[p], ids, isFinalAttempt)]

\* the contexts after the marking
WithMarks(paths, marks) ==
  [p \in 1..Len(paths) |->
     [paths[p] EXCEPT !.badCorners = marks[p].badCorners,
                      !.cornerScales = marks[p].cornerScales]]

\* faulty variant of ToRepair: every path is repaired
ToRepairAll(marks) == DOMAIN marks

\* pathsToRepair (lines 667, 698-700)
ToRepair(marks) == {p \in DOMAIN marks : marks[p].needsUpdate}

DrcCheck ==
  /\ pc = "check"
  /\ \E result \in OracleResults :
       LET ids == runDrcCheckAndParse(settings, result)
           isFinalAttempt == drcAttempt = maxDrcRetries(settings)
           marks == Marked(activePaths, ids, isFinalAttempt)
           paths == WithMarks(activePaths, marks)
           repair == ToRepair(marks)
       IN /\ lastCheck' = CheckSeen(result, ids, activePaths)
          /\ activePaths' = paths
          /\ pathsToRepair' = repair
          /\ SetControl(IF ids = {} THEN AfterLoop(settings, drcAttempt)
                        ELSE IF repair = {} THEN AfterLoop(settings, drcAttempt)
                        ELSE StartRedraw(settings, paths,
                                         CHOOSE q \in repair : \A r \in repair : q <= r,
                                         drcAttempt))
  /\ checks' = checks + 1
  /\ callLog' = <<Call("check", 0)>>
  /\ UNCHANGED <<settings, host, faults, regen, plan>>
  /\ UNCHANGED others

(***************************************************************************)
(* The end of the pass (beautify.ts:740-753).                              *)
(***************************************************************************)
\* line 741: settings.syncWidthTransition is read here for the only time; the
\* model draws its value at the read
SyncTest ==
  /\ pc = "sync"
  /\ \E syncWidthTransition \in BOOLEAN :
       pc' = IF syncWidthTransition THEN "transition" ELSE "snapshot"
  /\ UNCHANGED <<settings, activePaths, host, phase, pathIdx, opIdx, pendingOps,
                 drcAttempt, pathsToRepair, faults, checks, regen, plan, callLog>>
  /\ Forget
  /\ UNCHANGED others

\* faulty variant of WidthTransitionPass: the DRC loop is entered again after it
WidthTransitionPassThenCheck ==
  /\ pc = "transition"
  /\ pc' = "check"
  /\ callLog' = Append(callLog, Call("transition", 0))
  /\ UNCHANGED <<settings, activePaths, host, phase, pathIdx, opIdx,
                 pendingOps, drcAttempt, pathsToRepair, faults,
                 checks, regen, plan>>
  /\ Forget
  /\ UNCHANGED others

\* line 743: await addWidthTransitionsAll(false)
WidthTransitionPass ==
  /\ pc = "transition"
  /\ pc' = "snapshot"
  /\ callLog' = Append(callLog, Call("transition", 0))
  /\ UNCHANGED <<settings, activePaths, host, phase, pathIdx, opIdx,
                 pendingOps, drcAttempt, pathsToRepair, faults,
                 checks, regen, plan>>
  /\ Forget
  /\ UNCHANGED others

\* lines 746-752: the closing snapshot (its failure is swallowed) and the toast
SnapshotAfter ==
  /\ pc = "snapshot"
  /\ pc' = "done"
  /\ callLog' = Append(callLog, Call("snapshot", 0))
  /\ UNCHANGED <<settings, activePaths, host, phase, pathIdx, opIdx,
                 pendingOps, drcAttempt, pathsToRepair, faults,
                 checks, regen, plan>>
  /\ Forget
  /\ UNCHANGED others

Next ==
  \/ BoardInfo
  \/ CreateOk
  \/ CreateNoId
  \/ CreateThrow
  \/ DeleteLineOk
  \/ DeleteLineThrow
  \/ DeleteArcOk
  \/ DeleteArcThrow
  \/ DrcCheck
  \/ SyncTest
  \/ WidthTransitionPass
  \/ SnapshotAfter

Spec == Init /\ [][Next]_vars

(***************************************************************************)
(* Properties.  A step "issues a check" when checks' # checks; lastCheck'  *)
(* then tells what that check reported, and callLog holds the host calls   *)
(* issued since the previous check (or since the pass began).              *)
(***************************************************************************)
\* the scale in effect at corner idx of ctx
ScaleOf(ctx, idx) == currentScale(ctx.cornerScales, idx)

\* the host call the last step issued
LastCall == callLog[Len(callLog)]

\* create calls issued for path p in log
Creates(log, p) == Cardinality({k \in DOMAIN log : log[k] = Call("create", p)})

\* the paths owning a created primitive, mapped to a corner, that check reports
HitPaths(check) == {p \in DOMAIN check.hits : DOMAIN check.hits[p] # {}}

\* C1: a pass with enableDRC on issues at most drcRetryCount + 1 oracle
\* checks, for every drcRetryCount >= 0 and whatever the oracle reports.
C1_ChecksWithinRetryCount ==
  settings.enableDRC => checks <= settings.drcRetryCount + 1

\* C2: no step increases the scale of a corner, and a step that issues a
\* check leaves every corner a violating created primitive maps to with a
\* strictly smaller scale or in badCorners.
C2_ScalesOnlyShrink ==
  [][/\ \A p \in DOMAIN activePaths :
          \A idx \in DOMAIN activePaths'[p].cornerScales :
             ScaleOf(activePaths'[p], idx) <= ScaleOf(activePaths[p], idx)
     /\ checks' # checks =>
          \A p \in DOMAIN activePaths :
             \A idx \in DOMAIN lastCheck'.hits[p] :
                \/ ScaleOf(activePaths'[p], idx) < ScaleOf(activePaths[p], idx)
                \/ idx \in activePaths'[p].badCorners
  ]_vars

\* C2 happens: on the first check two violating primitives map to one corner,
\* whose scale went from 1 to 0.25
C2_HalvedTwiceInOneCycle ==
  /\ lastCheck.kind = "array"
  /\ drcAttempt = 0
  /\ \E p \in DOMAIN activePaths :
       \E idx \in DOMAIN lastCheck.hits[p] :
          /\ lastCheck.hits[p][idx] = 2
          /\ idx \in DOMAIN activePaths[p].cornerScales
          /\ activePaths[p].cornerScales[idx] = ScaleOne \div 4

\* C3: every stored corner scale is in (0, 1] and at least the floor 0.1; a
\* step that issues a check, for a corner it implicates whose halved scale
\* would be below 0.1 or on the final attempt, puts the corner in badCorners
\* and leaves its stored scale as it was.
C3_ScalesStayUsable ==
  [][/\ \A p \in DOMAIN activePaths :
          \A idx \in DOMAIN activePaths'[p].cornerScales :
             /\ activePaths'[p].cornerScales[idx] > 0
             /\ activePaths'[p].cornerScales[idx] <= ScaleOne
             /\ activePaths'[p].cornerScales[idx] >= ScaleFloor
     /\ checks' # checks =>
          \A p \in DOMAIN activePaths :
             \A idx \in DOMAIN lastCheck'.hits[p] :
                (\/ drcAttempt = maxDrcRetries(settings)
                 \/ nextScale(ScaleOf(activePaths[p], idx)) < ScaleFloor)
                => /\ idx \in activePaths'[p].badCorners
                   /\ (idx \in DOMAIN activePaths'[p].cornerScales
                        <=> idx \in DOMAIN activePaths[p].cornerScales)
                   /\ ScaleOf(activePaths'[p], idx) = ScaleOf(activePaths[p], idx)
  ]_vars

\* C3 happens: before the final attempt a corner at scale 0.125 was implicated
\* and is now bad, its stored scale still 0.125
C3_StraightenedAtFloor ==
  /\ lastCheck.kind = "array"
  /\ drcAttempt < maxDrcRetries(settings)
  /\ \E p \in DOMAIN activePaths :
       \E idx \in DOMAIN lastCheck.hits[p] :
          /\ idx \in activePaths[p].badCorners
          /\ idx \in DOMAIN activePaths[p].cornerScales
          /\ activePaths[p].cornerScales[idx] = ScaleOne \div 8

\* C4: in a check cycle the paths to repair are exactly those owning a
\* violating primitive mapped to a corner; for every other path no step of
\* the cycle issues a delete or a create and its context (createdIds,
\* idToCornerMap, cornerScales, badCorners) stays as it is.
C4_OnlyViolatingPathsReemitted ==
  [][(phase = "loop" \/ phase = "redraw") =>
       /\ checks' # checks => pathsToRepair' = HitPaths(lastCheck')
       /\ checks' = checks => pathsToRepair' = pathsToRepair
       /\ \A q \in DOMAIN activePaths \ pathsToRepair' :
            /\ LastCall'.call \in {"deleteLine", "deleteArc", "create"}
                 => LastCall'.path # q
            /\ activePaths'[q] = activePaths[q]
  ]_vars

\* C4 happens: of two paths only the second is repaired, and a create of its
\* re-emission has been issued
C4_OnePathOfTwoRepaired ==
  /\ Len(activePaths) = 2
  /\ phase = "redraw"
  /\ pathsToRepair = {2}
  /\ Len(callLog) > 0
  /\ LastCall = Call("create", 2)

\* C5: a step issuing a check that reports a non-empty violation set none of
\* whose ids is a created primitive of a path ends the loop and leaves the
\* contexts and the host's primitives as they are; once the loop has ended no
\* check is issued and no context changes.
C5_UnrelatedViolationsEndLoop ==
  [][/\ (/\ checks' # checks
         /\ lastCheck'.kind = "array"
         /\ lastCheck'.reported
         /\ HitPaths(lastCheck') = {})
        => /\ phase' = "end"
           /\ pc' = "sync"
           /\ activePaths' = activePaths
           /\ host' = host
     /\ phase = "end" =>
          /\ phase' = "end"
          /\ checks' = checks
          /\ activePaths' = activePaths
  ]_vars

\* C5 happens: the last check reported ids, none of them a path's, and the
\* loop is left with the primitives in place
C5_UnrelatedViolationSeen ==
  /\ lastCheck.kind = "array"
  /\ lastCheck.reported
  /\ HitPaths(lastCheck) = {}
  /\ pc = "sync"
  /\ host # <<>>

\* corner c of a path is drawn as a sharp joint by ops: a line attributed to c
\* ends at the corner point, no arc is attributed to c, and no arc of an
\* earlier corner is followed by an op of a later one (which would span c)
SharpAt(ops, pts, c) ==
  /\ \E k \in DOMAIN ops :
       /\ ops[k].type = "line"
       /\ ops[k].end = PointAt(pts, c)
       /\ ops[k].cornerIndex = c
  /\ \A k \in DOMAIN ops : ops[k].type = "arc" => ops[k].cornerIndex # c
  /\ \A k \in DOMAIN ops :
       (ops[k].type = "arc" /\ ops[k].cornerIndex < c /\ k < Len(ops))
       => ops[k + 1].cornerIndex <= c

\* C6: no step takes a corner out of badCorners, and whenever the ops of a
\* path are being committed every bad corner of the path is drawn as a sharp
\* joint.
C6_ForcedStraightStaysSharp ==
  [][/\ \A p \in DOMAIN activePaths :
          activePaths[p].badCorners \subseteq activePaths'[p].badCorners
     /\ pc' = "create" =>
          \A c \in activePaths'[pathIdx'].badCorners :
             SharpAt(pendingOps', activePaths'[pathIdx'].points, c)
  ]_vars

\* C6 happens: with the U-turn merge on, corner 3 of the five-point path is
\* bad while corner 2 before it could start a merge, and the path is being
\* re-emitted
C6_BadCornerAfterMergeCorner ==
  /\ pc = "create"
  /\ phase = "redraw"
  /\ settings.mergeTransitionSegments
  /\ 3 \in activePaths[pathIdx].badCorners
  /\ 2 \notin activePaths[pathIdx].badCorners
  /\ 2 \notin DOMAIN activePaths[pathIdx].cornerScales
  /\ Len(activePaths[pathIdx].points) = 5

\* C7 as the code has it: a path is regenerated at most once per check cycle,
\* and there are at most maxDrcRetries + 1 check cycles, where maxDrcRetries
\* is drcRetryCount, or 4 when drcRetryCount is 0.
C7_RegenerationsPerCycle ==
  /\ checks <= maxDrcRetries(settings) + 1
  /\ \A p \in DOMAIN regen : regen[p] <= checks

\* C7 as stated, for drcRetryCount >= 1: each path is regenerated by the DRC
\* loop at most drcRetryCount times.
C7_AtMostRetryCountRegenerations ==
  settings.drcRetryCount >= 1 =>
    \A p \in DOMAIN regen : regen[p] <= settings.drcRetryCount

\* C7 happens: a path has been regenerated in every cycle, the final one included
C7_RegeneratedOnFinalAttempt ==
  /\ settings.drcRetryCount >= 1
  /\ \E p \in DOMAIN regen : regen[p] = settings.drcRetryCount + 1

\* C8: a step issuing a check whose oracle call throws or returns a value
\* that is not an array ends the loop and leaves the contexts and the host's
\* primitives as they are; from there the pass goes on to its normal end.
C8_OracleUnavailableEndsLoop ==
  [][/\ (checks' # checks /\ lastCheck'.kind # "array")
        => /\ phase' = "end"
           /\ pc' = "sync"
           /\ activePaths' = activePaths
           /\ host' = host
     /\ pc = "sync" => (pc' = "transition" \/ pc' = "snapshot")
     /\ pc = "transition" => pc' = "snapshot"
     /\ pc = "snapshot" => pc' = "done"
  ]_vars

\* C8 happens: the last check returned a non-array while the pass held
\* primitives, and the loop is left
C8_NonArraySeen ==
  /\ lastCheck.kind = "nonarray"
  /\ pc = "sync"
  /\ host # <<>>

\* C9: a create call that throws does not abort the pass: when the pass has
\* stopped, no op of the path being committed and no later path is left
\* unsubmitted.
C9_RemainingOpsSubmitted ==
  pc = "aborted" =>
    /\ NextReal(pendingOps, opIdx + 1) > Len(pendingOps)
    /\ phase = "optimistic" => pathIdx = Len(activePaths)
    /\ phase = "redraw" => \A q \in pathsToRepair : q <= pathIdx

\* the paths of the emission that precedes the next check
Emitted == IF drcAttempt = 0 THEN DOMAIN activePaths ELSE pathsToRepair

\* in log, every create of a redraw comes after the deleteLine call for its
\* path and no delete call for the path comes after it
DeleteBeforeCreate(log) ==
  \A k \in DOMAIN log :
     (log[k].call = "create" /\ log[1].call = "check") =>
       /\ \E j \in 1..(k - 1) : log[j] = Call("deleteLine", log[k].path)
       /\ \A j \in (k + 1)..Len(log) :
            log[j].path = log[k].path => log[j].call = "create"

\* C10: a check is issued only when every create of the preceding emission
\* has been issued and has returned, and in a redraw the delete calls for a
\* path come before the first create of its re-emission.
C10_HostCallsOrdered ==
  [][/\ checks' # checks =>
          \A p \in Emitted : plan[p] > 0 /\ Creates(callLog, p) = plan[p]
     /\ DeleteBeforeCreate(callLog')
  ]_vars

\* C10 happens: a redraw is complete (check, deletes, creates) and the next
\* check is about to be issued
C10_RedrawThenCheck ==
  /\ pc = "check"
  /\ checks >= 1
  /\ Len(callLog) > 3
  /\ callLog[1].call = "check"
  /\ LastCall.call = "create"


(***************************************************************************)
(* Path extraction of beautifyRouting for one net/layer group              *)
(* (beautify.ts:396-493).  The coordinates of its inputs are counted in    *)
(* 1/KeyUnit of 0.001 host units, so that two points less than 0.001 apart *)
(* can have one pointKey.                                                  *)
(***************************************************************************)
KeyUnit == 4
MaxSegs == 4           \* a group has 1..MaxSegs segments

\* line 406: pointKey, p.x.toFixed(3) and p.y.toFixed(3): each coordinate is
\* rounded to the nearest multiple of 0.001
pointKey(p) ==
  Pt((p.x + KeyUnit \div 2) \div KeyUnit, (p.y + KeyUnit \div 2) \div KeyUnit)

\* lines 396-402: a segment (its width and track play no part in the walk)
Seg(id, p1, p2) == [id |-> id, p1 |-> p1, p2 |-> p2]

\* The segments a group is made of: the sides of a square A B C D, the last
\* one ending 0.00025 away from A, a diagonal and a segment from A to the
\* point 0.00025 away from it.
SegPool ==
  <<Seg(1, Pt(0, 0), Pt(4000, 0)),
    Seg(2, Pt(4000, 4000), Pt(4000, 0)),
    Seg(3, Pt(4000, 4000), Pt(0, 4000)),
    Seg(4, Pt(0, 4000), Pt(1, 0)),
    Seg(5, Pt(0, 0), Pt(4000, 4000)),
    Seg(6, Pt(0, 0), Pt(1, 0))>>

\* the segments of the pool with an id in ids, in pool order
Picked(ids) ==
  LET In(s) == s.id \in ids
  IN SelectSeq(SegPool, In)

Groups ==
  {Picked(ids) : ids \in {S \in SUBSET (1..Len(SegPool)) :
                             Cardinality(S) >= 1 /\ Cardinality(S) <= MaxSegs}}

\* lines 411-416: connections.get(k).push(seg)
Push(conns, k, seg) == [conns EXCEPT ![k] = Append(@, seg)]

KeysOf(list) ==
  {pointKey(list[i].p1) : i \in DOMAIN list} \cup {pointKey(list[i].p2) : i \in DOMAIN list}

RECURSIVE Indexed(_, _, _)
\* lines 408-417: every segment is pushed at the key of p1 and at the key of p2
Indexed(list, i, conns) ==
  IF i > Len(list) THEN conns
  ELSE Indexed(list, i + 1,
               Push(Push(conns, pointKey(list[i].p1), list[i]),
                    pointKey(list[i].p2), list[i]))

Connections(list) == Indexed(list, 1, [k \in KeysOf(list) |-> <<>>])

\* faulty variant of Extendable: the walk goes on through a branch point
ExtendableThroughBranch(conns, u, key) ==
  LET Unused(s) == s.id \notin u
  IN SelectSeq(conns[key], Unused)

\* lines 436-441, 465-470: the segments the walk can take at key: none when
\* more than two segment ends meet there, else the unused ones
Extendable(conns, u, key) ==
  LET Unused(s) == s.id \notin u
  IN IF Len(conns[key]) <= 2 THEN SelectSeq(conns[key], Unused) ELSE <<>>

\* faulty variant of Taken: the segment is not marked
TakenUnmarked(u, seg) == u

\* lines 428, 448, 455, 477, 484: used.add(seg.id)
Taken(u, seg) == u \cup {seg.id}

\* lines 445-457, 474-486: the point pushed for seg taken at key
OtherEnd(seg, key) == IF pointKey(seg.p1) = key THEN seg.p2 ELSE seg.p1

\* lines 435, 464
lastKey == pointKey(points[Len(points)])
firstKey == pointKey(points[1])

\* the beautifyRouting call of Init and Next is not running
BeautifyIdle ==
  /\ settings = [drcRetryCount |-> DefaultRetries, enableDRC |-> TRUE, forceArc |-> TRUE,
                 mergeTransitionSegments |-> FALSE, cornerRadiusRatio |-> 30]
  /\ activePaths = <<>>
  /\ host = <<>>
  /\ pc = "done"
  /\ phase = "end"
  /\ pathIdx = 0
  /\ opIdx = 0
  /\ pendingOps = <<>>
  /\ drcAttempt = 0
  /\ pathsToRepair = {}
  /\ lastCheck = NoCheck
  /\ faults = 0
  /\ checks = 0
  /\ regen = <<>>
  /\ plan = <<>>
  /\ callLog = <<>>

\* an extraction begins on list
Begin(list, r) ==
  /\ segs' = list
  /\ connections' = <<>>
  /\ used' = {}
  /\ points' = <<>>
  /\ orderedSegs' = <<>>
  /\ startIdx' = 0
  /\ walk' = "index"
  /\ extracted' = <<>>
  /\ run' = r

InitExtract ==
  /\ BeautifyIdle
  /\ TransitionIdle
  /\ CommandIdle
  /\ SmoothIdle
  /\ OriginalsIdle
  /\ SnapshotIdle
  /\ \E list \in Groups : segs = list
  /\ connections = <<>>
  /\ used = {}
  /\ points = <<>>
  /\ orderedSegs = <<>>
  /\ startIdx = 0
  /\ walk = "index"
  /\ extracted = <<>>
  /\ run = 1
  /\ firstExtracted = {}

\* lines 407-420: the adjacency index is built and the walk set up
BuildIndex ==
  /\ walk = "index"
  /\ connections' = Connections(segs)
  /\ startIdx' = 1
  /\ walk' = "start"
  /\ UNCHANGED <<segs, used, points, orderedSegs, extracted, run, firstExtracted>>
  /\ UNCHANGED outsideExtraction

\* lines 422-424: a startSeg already in a path is passed over
SkipUsed ==
  /\ walk = "start"
  /\ startIdx <= Len(segs)
  /\ segs[startIdx].id \in used
  /\ startIdx' = startIdx + 1
  /\ UNCHANGED <<segs, connections, used, points, orderedSegs, walk, extracted,
                 run, firstExtracted>>
  /\ UNCHANGED outsideExtraction

\* lines 426-428: a path starts with startSeg
StartPath ==
  /\ walk = "start"
  /\ startIdx <= Len(segs)
  /\ segs[startIdx].id \notin used
  /\ points' = <<segs[startIdx].p1, segs[startIdx].p2>>
  /\ orderedSegs' = <<segs[startIdx]>>
  /\ used' = Taken(used, segs[startIdx])
  /\ walk' = "extend"
  /\ UNCHANGED <<segs, connections, startIdx, extracted, run, firstExtracted>>
  /\ UNCHANGED outsideExtraction

\* lines 435-460: the path grows at its end by the first unused segment there
ExtendEnd ==
  /\ walk = "extend"
  /\ Extendable(connections, used, lastKey) # <<>>
  /\ LET seg == Head(Extendable(connections, used, lastKey))
     IN /\ points' = Append(points, OtherEnd(seg, lastKey))
        /\ orderedSegs' = Append(orderedSegs, seg)
        /\ used' = Taken(used, seg)
  /\ UNCHANGED <<segs, connections, startIdx, walk, extracted, run, firstExtracted>>
  /\ UNCHANGED outsideExtraction

\* lines 463-490: when the end cannot grow, the path grows at its start
ExtendStart ==
  /\ walk = "extend"
  /\ Extendable(connections, used, lastKey) = <<>>
  /\ Extendable(connections, used, firstKey) # <<>>
  /\ LET seg == Head(Extendable(connections, used, firstKey))
     IN /\ points' = <<OtherEnd(seg, firstKey)>> \o points
        /\ orderedSegs' = <<seg>> \o orderedSegs
        /\ used' = Taken(used, seg)
  /\ UNCHANGED <<segs, connections, startIdx, walk, extracted, run, firstExtracted>>
  /\ UNCHANGED outsideExtraction

\* lines 491-493: neither end grows; a path of at least 3 points is kept
ClosePath ==
  /\ walk = "extend"
  /\ Extendable(connections, used, lastKey) = <<>>
  /\ Extendable(connections, used, firstKey) = <<>>
  /\ extracted' = IF Len(points) >= 3
                  THEN Append(extracted, [points |-> points, orderedSegs |-> orderedSegs])
                  ELSE extracted
  /\ startIdx' = startIdx + 1
  /\ walk' = "start"
  /\ UNCHANGED <<segs, connections, used, points, orderedSegs, run, firstExtracted>>
  /\ UNCHANGED outsideExtraction

\* a path as the sequence of its point keys
KeysAlong(path) == [k \in DOMAIN path.points |-> pointKey(path.points[k])]

Reversed(s) == [k \in DOMAIN s |-> s[Len(s) + 1 - k]]

\* the extracted paths as point sequences, each taken with its reversal
PathSet(paths) ==
  {{KeysAlong(paths[k]), Reversed(KeysAlong(paths[k]))} : k \in DOMAIN paths}

\* line 422: the for loop over segs is over
ExtractDone ==
  /\ walk = "start"
  /\ startIdx > Len(segs)
  /\ walk' = "done"
  /\ firstExtracted' = IF run = 1 THEN PathSet(extracted) ELSE firstExtracted
  /\ UNCHANGED <<segs, connections, used, points, orderedSegs, startIdx, extracted, run>>
  /\ UNCHANGED outsideExtraction

\* the orders in which the host can hand over the segments of list
Reorderings(list) ==
  {[k \in DOMAIN list |-> list[f[k]]] :
     f \in {g \in [DOMAIN list -> DOMAIN list] :
              \A i, j \in DOMAIN list : i # j => g[i] # g[j]}}

\* lines 292, 396: another pass gets the same segments in another order
Reorder ==
  /\ walk = "done"
  /\ run = 1
  /\ \E list \in Reorderings(segs) : Begin(list, 2)
  /\ UNCHANGED firstExtracted
  /\ UNCHANGED outsideExtraction

NextExtract ==
  \/ BuildIndex
  \/ SkipUsed
  \/ StartPath
  \/ ExtendEnd
  \/ ExtendStart
  \/ ClosePath
  \/ ExtractDone
  \/ Reorder

SpecExtract == InitExtract /\ [][NextExtract]_extractVars

\* the walk is one sequential loop: it takes its next step whenever it has one
SpecExtractFair == SpecExtract /\ WF_extractVars(NextExtract)


\* the segment ends the adjacency index holds at key
Degree(conns, key) == Len(conns[key])

\* path has at least 3 points and one segment fewer, segment k joins points
\* k and k + 1 (as point keys), and at most two segment ends meet at each
\* interior point
WellFormed(conns, path) ==
  /\ Len(path.points) >= 3
  /\ Len(path.orderedSegs) = Len(path.points) - 1
  /\ \A k \in DOMAIN path.orderedSegs :
       {pointKey(path.orderedSegs[k].p1), pointKey(path.orderedSegs[k].p2)}
         = {pointKey(path.points[k]), pointKey(path.points[k + 1])}
  /\ \A k \in 2..(Len(path.points) - 1) : Degree(conns, pointKey(path.points[k])) <= 2

\* C11: every extracted path has at least 3 points and exactly one segment
\* fewer than points, segment k joins points k and k + 1, every interior
\* point has degree at most 2, and a walk that ends with fewer than 3 points
\* adds no path.
C11_ExtractedPathsWellFormed ==
  [][/\ \A k \in DOMAIN extracted' : WellFormed(connections', extracted'[k])
     /\ (walk = "extend" /\ walk' = "start" /\ Len(points) < 3) => extracted' = extracted
  ]_extractVars

\* C11 happens: a walk stopped at a branch point at both ends gave a path of
\* four points, and the chain of the one segment left gave none
C11_PathBetweenBranchPoints ==
  /\ walk = "done"
  /\ Len(segs) = 4
  /\ Cardinality(used) = 4
  /\ Len(extracted) = 1
  /\ Len(extracted[1].points) = 4
  /\ Degree(connections, pointKey(extracted[1].points[1])) = 3

\* C12: the extraction of a reordered segment list yields the same set of
\* paths, as point sequences up to reversal, as the first extraction.
C12_SameOrderOrNot ==
  (walk = "done" /\ run = 2) => PathSet(extracted) = firstExtracted

\* a segment whose two ends have one pointKey
ZeroLength(seg) == pointKey(seg.p1) = pointKey(seg.p2)

\* the ends of the segments of list other than zero-length ones that lie at key
ProperEnds(list, key) ==
  Cardinality({e \in (DOMAIN list) \X {1, 2} :
                 /\ ~ZeroLength(list[e[1]])
                 /\ pointKey(IF e[2] = 1 THEN list[e[1]].p1 ELSE list[e[1]].p2) = key})

\* C13: a segment whose ends have the same pointKey is not in the adjacency
\* index, does not raise the degree of its point and is in no extracted path.
C13_ZeroLengthFilteredOut ==
  \A key \in DOMAIN connections :
     /\ \A k \in DOMAIN connections[key] : ~ZeroLength(connections[key][k])
     /\ Degree(connections, key) = ProperEnds(segs, key)
     /\ \A k \in DOMAIN extracted :
          \A j \in DOMAIN extracted[k].orderedSegs : ~ZeroLength(extracted[k].orderedSegs[j])

\* no zero-length segment, and exactly two segment ends at every point
ClosedLoops(list) ==
  /\ \A i \in DOMAIN list : ~ZeroLength(list[i])
  /\ \A key \in KeysOf(list) : ProperEnds(list, key) = 2

\* ids of the segments of the sequence s, with repetitions
Ids(s) == [k \in DOMAIN s |-> s[k].id]

\* the sequence s has no element twice
NoRepeat(s) == \A i, j \in DOMAIN s : i # j => s[i] # s[j]

RECURSIVE Flat(_, _)
\* the segments of the first n extracted paths, one after the other
Flat(paths, n) ==
  IF n = 0 THEN <<>> ELSE Flat(paths, n - 1) \o Ids(paths[n].orderedSegs)

\* C14: every extraction terminates; no segment is walked twice; and the
\* extraction of closed loops ends with paths that return to their own first
\* point and hold each segment exactly once.
C14_ExtractionTerminates ==
  /\ (walk = "index") ~> (walk = "done")
  /\ [](/\ NoRepeat(Ids(orderedSegs))
        /\ NoRepeat(Flat(extracted, Len(extracted)))
        /\ (walk = "done" /\ ClosedLoops(segs)) =>
             /\ \A k \in DOMAIN extracted :
                  pointKey(extracted[k].points[1])
                    = pointKey(extracted[k].points[Len(extracted[k].points)])
             /\ {segs[i].id : i \in DOMAIN segs}
                  = {Flat(extracted, Len(extracted))[j] :
                       j \in DOMAIN Flat(extracted, Len(extracted))})

\* C14 happens: the four sides of the square were walked into one path that
\* ends where it starts
C14_SquareWalkedOnce ==
  /\ walk = "done"
  /\ ClosedLoops(segs)
  /\ Len(segs) = 4
  /\ Len(extracted) = 1
  /\ Len(extracted[1].orderedSegs) = 4


(***************************************************************************)
(* Width transitions (widthTransition.ts).  Coordinates, lengths and       *)
(* widths are counted in 1/Unit of a host unit.  The widths of a taper are *)
(* computed as the code computes them, in binary floating point rounded to *)
(* nearest, ties to even, after every operation; the model keeps           *)
(* MantissaBits significant bits where the code's numbers keep 53.  Every  *)
(* floating-point number the model meets is a multiple of 1/Unit.          *)
(***************************************************************************)
MantissaBits == 4      \* significant bits of a floating-point number
Unit == 2^(MantissaBits + 2)

RECURSIVE Quantum(_, _)
\* the spacing of the floating-point numbers around x: the least power of
\* two q, from q on, with |x| < q * 2^MantissaBits
Quantum(x, q) == IF Abs(x) < q * 2^MantissaBits THEN q ELSE Quantum(x, 2 * q)

\* x rounded to the nearest multiple of q, a tie to the even one
RoundEven(x, q) ==
  IF 2 * (x % q) < q THEN x - (x % q)
  ELSE IF 2 * (x % q) > q THEN x - (x % q) + q
  ELSE IF ((x - (x % q)) \div q) % 2 = 0 THEN x - (x % q)
  ELSE x - (x % q) + q

\* the floating-point number nearest to x
fl(x) == RoundEven(x, Quantum(x, 1))

\* a - b, a * b and k / n in floating point
fsub(a, b) == fl(a - b)
fadd(a, b) == fl(a + b)
fmul(a, b) == fl(a * b) \div Unit
fdiv(k, n) == fl((k * Unit) \div n)

\* math.ts:77-79 smootherStep: t * t * t * (t * (t * 6 - 15) + 10)
smootherStep(t) ==
  fmul(fmul(fmul(t, t), t),
       fadd(fmul(t, fsub(fmul(t, 6 * Unit), 15 * Unit)), 10 * Unit))

\* a faulty variant of TaperWidth: the width is taken at the head of the
\* sub-segment, t1 = i / segments
TaperWidthAtHead(wideWidth, widthDiff, i, segments) ==
  fsub(wideWidth, fmul(widthDiff, smootherStep(fdiv(i, segments))))

\* widthTransition.ts:636-643: the width of sub-segment i (from 0) of segments
TaperWidth(wideWidth, widthDiff, i, segments) ==
  fsub(wideWidth, fmul(widthDiff, smootherStep(fdiv(i + 1, segments))))

(***************************************************************************)
(* The width-transition pass (widthTransition.ts:128-677).  Coordinates,   *)
(* lengths and widths are counted in 1/Unit mil.  Widths go through the    *)
(* floating-point operators above; lengths are taken exactly.              *)
(***************************************************************************)
Mil(n) == n * Unit

Track(id, net, layer, start, end, width) ==
  [id |-> id, net |-> net, layer |-> layer, start |-> start, end |-> end, width |-> width]

\* the ids of S in ascending order
RECURSIVE Ascending(_)
Ascending(S) ==
  IF S = {} THEN <<>>
  ELSE <<CHOOSE m \in S : \A y \in S : m <= y>>
       \o Ascending(S \ {CHOOSE m \in S : \A y \in S : m <= y})

InOrder(store, ids) == [k \in DOMAIN ids |-> store[ids[k]]]

\* line 149: eda.pcb_PrimitiveLine.getAll(), in the order of creation
getAll(store) == InOrder(store, Ascending(DOMAIN store))

\* eda.pcb_PrimitiveLine.delete(ids): ids the host does not hold are ignored
Deleted(store, ids) == [id \in DOMAIN store \ ids |-> store[id]]

\* eda.pcb_PrimitiveLine.create for the lines of list, ids from last + 1 on
Created(store, last, list) ==
  [id \in DOMAIN store \cup {last + k : k \in DOMAIN list} |->
     IF id \in DOMAIN store THEN store[id]
     ELSE Track(id, list[id - last].net, list[id - last].layer, list[id - last].start,
                list[id - last].end, list[id - last].width)]

\* lines 190-202: the key of a track's group and netLayerMap's keys in
\* insertion order
GroupKey(t) == [net |-> t.net, layer |-> t.layer]

RECURSIVE KeysInOrder(_, _, _)
KeysInOrder(list, k, keys) ==
  IF k > Len(list) THEN keys
  ELSE KeysInOrder(list, k + 1,
                   IF GroupKey(list[k]) \in Range(keys) THEN keys
                   ELSE Append(keys, GroupKey(list[k])))

GroupTracks(list, key) == SelectSeq(list, LAMBDA t : GroupKey(t) = key)

\* line 213: pointKey, p.x.toFixed(3) and p.y.toFixed(3), as thousandths of a mil
transitionKey(p) ==
  Pt((2000 * p.x + Unit) \div (2 * Unit), (2000 * p.y + Unit) \div (2 * Unit))

\* math.ts:12-14 isClose(a, b, 0.01)
isClose(a, b) == 100 * Abs(a - b) < Unit

Length(v) == Sqrt(Dot(v, v))

\* lines 260, 266-281: dist(p, q) < tolerance, tolerance = 0.1
Near(p, q) == 10 * dist(p, q) < Unit

\* lines 262-285: the connection point of t1 and t2 and the ends it lies at
Connection(t1, t2) ==
  IF Near(t1.end, t2.start)
  THEN [found |-> TRUE, connPoint |-> t1.end, t1IsStart |-> FALSE, t2IsStart |-> TRUE]
  ELSE IF Near(t1.end, t2.end)
  THEN [found |-> TRUE, connPoint |-> t1.end, t1IsStart |-> FALSE, t2IsStart |-> FALSE]
  ELSE IF Near(t1.start, t2.start)
  THEN [found |-> TRUE, connPoint |-> t1.start, t1IsStart |-> TRUE, t2IsStart |-> TRUE]
  ELSE IF Near(t1.start, t2.end)
  THEN [found |-> TRUE, connPoint |-> t1.start, t1IsStart |-> TRUE, t2IsStart |-> FALSE]
  ELSE [found |-> FALSE, connPoint |-> t1.start, t1IsStart |-> FALSE, t2IsStart |-> FALSE]

\* lines 295-296: the vector of t towards the connection point
DirVec(t, isStart) == IF isStart THEN Sub(t.start, t.end) ELSE Sub(t.end, t.start)

\* lines 303-304: Math.abs(Math.abs(dot) - 1) <= 0.13, dot divided by len1 * len2
Collinear(v1, v2) ==
  Abs(Abs(Dot(v1, v2)) - Length(v1) * Length(v2)) <= (13 * Length(v1) * Length(v2)) \div 100

\* lines 251-308: the pair t1, t2 is a junction this run has not handled
IsJunction(t1, t2, c, processed) ==
  /\ ~isClose(t1.width, t2.width)
  /\ c.found
  /\ transitionKey(c.connPoint) \notin processed
  /\ 1000 * Length(DirVec(t1, c.t1IsStart)) >= Unit
  /\ 1000 * Length(DirVec(t2, c.t2IsStart)) >= Unit
  /\ Collinear(DirVec(t1, c.t1IsStart), DirVec(t2, c.t2IsStart))

\* line 334: settings.widthTransitionRatio || 3.0
Ratio(st) == IF st.widthTransitionRatio = 0 THEN 3 ELSE st.widthTransitionRatio

\* a faulty variant of Balance: the setting is clamped to 0..100 and a 0 stays 0
BalanceAsSet(st) == Max(0, Min(100, st.widthTransitionBalance))

\* line 337: Math.max(0, Math.min(100, Number(settings.widthTransitionBalance) || 50))
Balance(st) ==
  Max(0, Min(100, IF st.widthTransitionBalance = 0 THEN 50 ELSE st.widthTransitionBalance))

\* lines 332-334: widthDiff and idealLength
IdealLength(st, w1, w2) == Abs(fsub(w1, w2)) * Ratio(st)

\* lines 347-353: a portion is cut down to 0.9 of the track's length
Capped(portion, len) == IF 10 * portion > 9 * len THEN (9 * len) \div 10 ELSE portion

\* lines 343-349
WidePortion(st, w1, w2, wideLen) ==
  Capped((IdealLength(st, w1, w2) * Balance(st)) \div 100, wideLen)

\* lines 344, 351-353
NarrowPortion(st, w1, w2, narrowLen) ==
  Capped((IdealLength(st, w1, w2) * (100 - Balance(st))) \div 100, narrowLen)

\* lines 366-408: the entry pushed on pendingTransitions; between (the ids of
\* t1 and t2) is history
Entry(t1, t2, c, wideTrack, wideIsStart, wideVec, narrowVec, widePortion, narrowPortion) ==
  [point |-> c.connPoint,
   wideDir |-> Neg(wideVec),
   narrowDir |-> Neg(narrowVec),
   w1 |-> t1.width,
   w2 |-> t2.width,
   layer |-> t1.layer,
   net |-> t1.net,
   widePortion |-> IF widePortion >= Unit THEN widePortion ELSE 0,
   narrowPortion |-> narrowPortion,
   totalLength |-> IF widePortion >= Unit THEN widePortion + narrowPortion ELSE narrowPortion,
   shortenTrackId |-> IF widePortion >= Unit THEN wideTrack.id ELSE 0,
   shortenEndpoint |-> IF widePortion < Unit THEN "none"
                       ELSE IF wideIsStart THEN "start" ELSE "end",
   between |-> {t1.id, t2.id}]

\* lines 326-353: the wide track, its end at the junction and the portions
EntryOf(t1, t2, c, st, isT1Wide) ==
  Entry(t1, t2, c,
        IF isT1Wide THEN t1 ELSE t2,
        IF isT1Wide THEN c.t1IsStart ELSE c.t2IsStart,
        IF isT1Wide THEN DirVec(t1, c.t1IsStart) ELSE DirVec(t2, c.t2IsStart),
        IF isT1Wide THEN DirVec(t2, c.t2IsStart) ELSE DirVec(t1, c.t1IsStart),
        WidePortion(st, t1.width, t2.width,
                    Length(IF isT1Wide THEN DirVec(t1, c.t1IsStart) ELSE DirVec(t2, c.t2IsStart))),
        NarrowPortion(st, t1.width, t2.width,
                      Length(IF isT1Wide THEN DirVec(t2, c.t2IsStart) ELSE DirVec(t1, c.t1IsStart))))

\* lines 355-357: totalLength < 1, on the portions before the widePortion >= 1 test
TooShort(t1, t2, c, st, isT1Wide) ==
  WidePortion(st, t1.width, t2.width,
              Length(IF isT1Wide THEN DirVec(t1, c.t1IsStart) ELSE DirVec(t2, c.t2IsStart)))
  + NarrowPortion(st, t1.width, t2.width,
                  Length(IF isT1Wide THEN DirVec(t2, c.t2IsStart) ELSE DirVec(t1, c.t1IsStart)))
  < Unit

\* lines 368-378: the shorten request of track t, grown to portion at one end
WithShorten(shortens, t, endpoint, portion) ==
  [k \in 1..(IF \E j \in DOMAIN shortens : shortens[j].id = t.id
             THEN Len(shortens) ELSE Len(shortens) + 1) |->
     IF k \in DOMAIN shortens /\ shortens[k].id # t.id THEN shortens[k]
     ELSE [id |-> t.id,
           original |-> IF k \in DOMAIN shortens THEN shortens[k].original ELSE t,
           start |-> Max(IF k \in DOMAIN shortens THEN shortens[k].start ELSE 0,
                         IF endpoint = "start" THEN portion ELSE 0),
           end |-> Max(IF k \in DOMAIN shortens THEN shortens[k].end ELSE 0,
                       IF endpoint = "end" THEN portion ELSE 0)]]

\* a history entry: the saved ids deleted, or the sub-segments created, for
\* the junction at key of group
LogEntry(op, key, group, ids, between, widths, w1, w2) ==
  [op |-> op, key |-> key, group |-> group, ids |-> ids, between |-> between,
   widths |-> widths, wide |-> Max(w1, w2), narrow |-> Min(w1, w2)]

\* point moved by d along v
Along(point, v, d) ==
  Pt(point.x + MulDiv(v.x, d, Length(v)), point.y + MulDiv(v.y, d, Length(v)))

\* Math.ceil(a / 2), a in 1/Unit
CeilHalf(a) == (a + 2 * Unit - 1) \div (2 * Unit)

\* lines 612-627: the number of sub-segments
Segments(st, transitionLength, widthDiff) ==
  IF transitionLength < 5 * Unit
  THEN Min(Min(IF st.widthTransitionSegments = 0 THEN 30 ELSE st.widthTransitionSegments,
               Max(5, Max(CeilHalf(transitionLength), CeilHalf(widthDiff)))), 6)
  ELSE Min(IF st.widthTransitionSegments = 0 THEN 30 ELSE st.widthTransitionSegments,
           Max(5, Max(CeilHalf(transitionLength), CeilHalf(widthDiff))))

\* lines 634-669: the sub-segments, from the wide end on
SubSegments(point, direction, wideWidth, widthDiff, layer, net, transitionLength, segments) ==
  [k \in 1..segments |->
     Track(0, net, layer,
           Along(point, direction, ((k - 1) * transitionLength) \div segments),
           Along(point, direction, (k * transitionLength) \div segments),
           TaperWidth(wideWidth, widthDiff, k - 1, segments))]

\* lines 560-677 createWidthTransition with forceExactLength: the lines it creates
createWidthTransition(point, direction, width1, width2, layer, net, narrowTrackLength, st) ==
  IF 1000 * Length(direction) < Unit THEN <<>>
  ELSE IF narrowTrackLength < Unit THEN <<>>
  ELSE SubSegments(point, direction, Max(width1, width2),
                   fsub(Max(width1, width2), Min(width1, width2)), layer, net,
                   narrowTrackLength,
                   Segments(st, narrowTrackLength,
                            fsub(Max(width1, width2), Min(width1, width2))))

(***************************************************************************)
(* Inputs of the width-transition pass: boards of straight tracks and the  *)
(* three settings the pass reads.                                          *)
(*   BoardA      a wide track W and a narrow track N of net A in one line  *)
(*   BoardAB     BoardA and the same two tracks of net B on layer 2        *)
(*   BoardShort  BoardA with a narrow track of half the length             *)
(*   BoardBend   BoardA, a third track of net A leaving the junction at a  *)
(*               right angle and a lone track of net C                     *)
(*   BoardFine   BoardA with a narrow track of width 1.125                 *)
(***************************************************************************)
BoardA ==
  <<Track(1, "A", 1, Pt(0, 0), Pt(Mil(40), 0), Mil(30)),
    Track(2, "A", 1, Pt(Mil(40), 0), Pt(Mil(80), 0), Mil(10))>>

BoardAB ==
  BoardA \o
  <<Track(3, "B", 2, Pt(0, 0), Pt(Mil(40), 0), Mil(30)),
    Track(4, "B", 2, Pt(Mil(40), 0), Pt(Mil(80), 0), Mil(10))>>

BoardShort ==
  <<Track(1, "A", 1, Pt(0, 0), Pt(Mil(40), 0), Mil(30)),
    Track(2, "A", 1, Pt(Mil(60), 0), Pt(Mil(40), 0), Mil(10))>>

BoardBend ==
  BoardA \o
  <<Track(3, "A", 1, Pt(Mil(40), 0), Pt(Mil(40), Mil(40)), Mil(20)),
    Track(4, "C", 1, Pt(0, Mil(20)), Pt(Mil(40), Mil(20)), Mil(10))>>

BoardFine ==
  <<Track(1, "A", 1, Pt(0, 0), Pt(Mil(40), 0), Mil(30)),
    Track(2, "A", 1, Pt(Mil(40), 0), Pt(Mil(80), 0), Mil(9) \div 8)>>

\* a narrow track folded back over the wide one from their common end
BoardFold ==
  <<Track(1, "A", 1, Pt(0, 0), Pt(Mil(40), 0), Mil(30)),
    Track(2, "A", 1, Pt(Mil(40), 0), Pt(Mil(10), 0), Mil(10))>>

\* a narrow track leaving the wide one at about 18 degrees off the straight line
BoardSlant ==
  <<Track(1, "A", 1, Pt(0, 0), Pt(Mil(40), 0), Mil(30)),
    Track(2, "A", 1, Pt(Mil(40), 0), Pt(Mil(70), Mil(10)), Mil(10))>>

Boards == {BoardA, BoardAB, BoardShort, BoardBend, BoardFine, BoardFold, BoardSlant}

\* the host's store holding the tracks of list
StoreOf(list) == [id \in {list[k].id : k \in DOMAIN list} |->
                    CHOOSE t \in Range(list) : t.id = id]

\* part_004:119-149: widthTransitionRatio, widthTransitionBalance (a slider
\* from 0 to 100) and widthTransitionSegments
TransitionSettings ==
  [widthTransitionRatio : {2, 3},
   widthTransitionBalance : {0, 50, 100},
   widthTransitionSegments : {1, 2}]

\* line 217: the tracks of the group being processed
groupTracks == GroupTracks(tracks, groupKeys[groupIdx])

\* lines 217-226: the per-group state at the head of the loop body
GroupHead ==
  /\ pairI' = 1
  /\ pairJ' = 2
  /\ pendingShortens' = <<>>
  /\ pendingTransitions' = <<>>
  /\ shortenedTrackEndpoints' = <<>>
  /\ stepIdx' = 0
  /\ wtpc' = "analyse"

\* lines 129-154, 190-213: addWidthTransitionsAll up to the loop over the
\* groups, on the host's store and the saved records
BeginPass(store, saved) ==
  /\ tracks' = getAll(store)
  /\ groupKeys' = KeysInOrder(getAll(store), 1, <<>>)
  /\ groupIdx' = 1
  /\ recordsMap' = saved
  /\ processedPointsInCurrentRun' = {}
  /\ GroupHead

\* the first pass on a board, with nothing saved, read up to the loop over
\* the groups
InitTransition ==
  /\ BeautifyIdle
  /\ ExtractIdle
  /\ CommandIdle
  /\ SmoothIdle
  /\ OriginalsIdle
  /\ SnapshotIdle
  /\ \E b \in Boards :
       /\ lineStore = StoreOf(b)
       /\ lastId = Len(b)
       /\ firstBoard = StoreOf(b)
       /\ tracks = getAll(StoreOf(b))
       /\ groupKeys = KeysInOrder(getAll(StoreOf(b)), 1, <<>>)
  /\ wtSettings \in TransitionSettings
  /\ savedData = <<>>
  /\ groupIdx = 1
  /\ recordsMap = <<>>
  /\ processedPointsInCurrentRun = {}
  /\ pairI = 1
  /\ pairJ = 2
  /\ pendingShortens = <<>>
  /\ pendingTransitions = <<>>
  /\ shortenedTrackEndpoints = <<>>
  /\ stepIdx = 0
  /\ wtpc = "analyse"
  /\ passNo = 1
  /\ passKind = "first"
  /\ keyLog = <<>>
  /\ firstLog = <<>>

\* lines 311-320: the sub-segments saved for the junction are deleted and
\* the record is dropped
OldRecordDeleted(key, t1, t2) ==
  IF key \in DOMAIN recordsMap
  THEN /\ lineStore' = Deleted(lineStore, Range(recordsMap[key]))
       /\ recordsMap' = [k \in DOMAIN recordsMap \ {key} |-> recordsMap[k]]
       /\ keyLog' = IF recordsMap[key] = <<>> THEN keyLog
                    ELSE Append(keyLog, LogEntry("delete", key, groupKeys[groupIdx],
                                                 Range(recordsMap[key]), {t1.id, t2.id},
                                                 <<>>, t1.width, t2.width))
  ELSE UNCHANGED <<lineStore, recordsMap, keyLog>>

\* lines 366-408
Registered(e, wideTrack) ==
  /\ pendingTransitions' = Append(pendingTransitions, e)
  /\ pendingShortens' = IF e.shortenTrackId = 0 THEN pendingShortens
                        ELSE WithShorten(pendingShortens, wideTrack, e.shortenEndpoint,
                                         e.widePortion)

\* lines 244-409: one turn of the inner loop, on the pair t1, t2
Analysed(t1, t2, c) ==
  IF ~IsJunction(t1, t2, c, processedPointsInCurrentRun)
  THEN UNCHANGED <<lineStore, recordsMap, keyLog, processedPointsInCurrentRun,
                   pendingShortens, pendingTransitions>>
  ELSE /\ OldRecordDeleted(transitionKey(c.connPoint), t1, t2)
       /\ processedPointsInCurrentRun' =
            processedPointsInCurrentRun \cup {transitionKey(c.connPoint)}
       /\ IF TooShort(t1, t2, c, wtSettings, t1.width > t2.width)
          THEN UNCHANGED <<pendingShortens, pendingTransitions>>
          ELSE Registered(EntryOf(t1, t2, c, wtSettings, t1.width > t2.width),
                          IF t1.width > t2.width THEN t1 ELSE t2)

\* lines 242-243: the next pair, or step 2 after the last one
NextPair ==
  IF pairJ < Len(groupTracks)
  THEN pairI' = pairI /\ pairJ' = pairJ + 1 /\ UNCHANGED <<wtpc, stepIdx>>
  ELSE IF pairI + 1 < Len(groupTracks)
  THEN pairI' = pairI + 1 /\ pairJ' = pairI + 2 /\ UNCHANGED <<wtpc, stepIdx>>
  ELSE UNCHANGED <<pairI, pairJ>> /\ wtpc' = "shorten" /\ stepIdx' = 1

AnalysePair ==
  /\ wtpc = "analyse"
  /\ groupIdx \in DOMAIN groupKeys
  /\ Len(groupTracks) >= 2
  /\ Analysed(groupTracks[pairI], groupTracks[pairJ],
              Connection(groupTracks[pairI], groupTracks[pairJ]))
  /\ NextPair
  /\ UNCHANGED <<lastId, savedData, wtSettings, tracks, groupKeys, groupIdx,
                 shortenedTrackEndpoints, passNo, passKind, firstBoard, firstLog>>
  /\ UNCHANGED outsideTransition

\* line 217: the next group
NextGroup ==
  /\ groupIdx' = groupIdx + 1
  /\ GroupHead

\* lines 218-219: a group of fewer than two tracks is passed over
SkipGroup ==
  /\ wtpc = "analyse"
  /\ groupIdx \in DOMAIN groupKeys
  /\ Len(groupTracks) < 2
  /\ NextGroup
  /\ UNCHANGED <<lineStore, lastId, savedData, wtSettings, tracks, groupKeys, recordsMap,
                 processedPointsInCurrentRun, passNo, passKind, firstBoard, keyLog,
                 firstLog>>
  /\ UNCHANGED outsideTransition

\* lines 438-439: the track of request req, cut back at both ends
Shortened(t, req, len) ==
  Track(0, t.net, t.layer,
        Pt(t.start.x + MulDiv(t.end.x - t.start.x, req.start, len),
           t.start.y + MulDiv(t.end.y - t.start.y, req.start, len)),
        Pt(t.end.x - MulDiv(t.end.x - t.start.x, req.end, len),
           t.end.y - MulDiv(t.end.y - t.start.y, req.end, len)),
        t.width)

\* lines 443-449: delete, create and the new end points kept
Replaced(req, new) ==
  /\ lineStore' = Created(Deleted(lineStore, {req.id}), lastId, <<new>>)
  /\ lastId' = lastId + 1
  /\ shortenedTrackEndpoints' =
       MapSet(shortenedTrackEndpoints, req.id, [start |-> new.start, end |-> new.end])

\* lines 415-455: one turn of the loop of step 2.  A delete of an id the
\* host no longer holds either does nothing or throws, and a throw is caught
\* at line 451 before the create.
ShortenStep ==
  /\ wtpc = "shorten"
  /\ stepIdx \in DOMAIN pendingShortens
  /\ IF \/ 1000 * dist(pendingShortens[stepIdx].original.end,
                       pendingShortens[stepIdx].original.start) < Unit
        \/ 10 * (pendingShortens[stepIdx].start + pendingShortens[stepIdx].end)
             >= 10 * dist(pendingShortens[stepIdx].original.end,
                          pendingShortens[stepIdx].original.start) - Unit
     THEN UNCHANGED <<lineStore, lastId, shortenedTrackEndpoints>>
     ELSE \/ Replaced(pendingShortens[stepIdx],
                      Shortened(pendingShortens[stepIdx].original, pendingShortens[stepIdx],
                                dist(pendingShortens[stepIdx].original.end,
                                     pendingShortens[stepIdx].original.start)))
          \/ /\ pendingShortens[stepIdx].id \notin DOMAIN lineStore
             /\ UNCHANGED <<lineStore, lastId, shortenedTrackEndpoints>>
  /\ stepIdx' = stepIdx + 1
  /\ UNCHANGED <<savedData, wtSettings, tracks, groupKeys, groupIdx, recordsMap,
                 processedPointsInCurrentRun, pairI, pairJ, pendingShortens,
                 pendingTransitions, wtpc, passNo, passKind, firstBoard, keyLog, firstLog>>
  /\ UNCHANGED outsideTransition

\* line 415: the loop of step 2 is over
ShortenDone ==
  /\ wtpc = "shorten"
  /\ stepIdx > Len(pendingShortens)
  /\ wtpc' = "generate"
  /\ stepIdx' = 1
  /\ UNCHANGED <<lineStore, lastId, savedData, wtSettings, tracks, groupKeys, groupIdx,
                 recordsMap, processedPointsInCurrentRun, pairI, pairJ, pendingShortens,
                 pendingTransitions, shortenedTrackEndpoints, passNo, passKind, firstBoard,
                 keyLog, firstLog>>
  /\ UNCHANGED outsideTransition

\* lines 464-491: actualWidePortion
ActualWidePortion(trans, endpoints, shortens) ==
  IF trans.widePortion >= Unit /\ trans.shortenTrackId # 0
     /\ trans.shortenTrackId \notin DOMAIN endpoints
     /\ ~\E k \in DOMAIN shortens : shortens[k].id = trans.shortenTrackId
  THEN 0
  ELSE trans.widePortion

\* lines 464-486: wideStartPoint
WideStartPoint(trans, endpoints) ==
  IF ~(trans.widePortion >= Unit /\ trans.shortenTrackId # 0) THEN trans.point
  ELSE IF trans.shortenTrackId \in DOMAIN endpoints
  THEN (IF trans.shortenEndpoint = "start" THEN endpoints[trans.shortenTrackId].start
        ELSE endpoints[trans.shortenTrackId].end)
  ELSE IF 1000 * Length(trans.wideDir) > Unit
  THEN Along(trans.point, trans.wideDir, trans.widePortion)
  ELSE trans.point

\* lines 503-522: the sub-segments of list are created and their ids are
\* appended to the record of the junction
Generated(trans, key, list) ==
  /\ lineStore' = Created(lineStore, lastId, list)
  /\ lastId' = lastId + Len(list)
  /\ recordsMap' =
       MapSet(recordsMap, key,
              (IF key \in DOMAIN recordsMap THEN recordsMap[key] ELSE <<>>)
              \o [k \in DOMAIN list |-> lastId + k])
  /\ keyLog' = Append(keyLog,
                      LogEntry("create", key, groupKeys[groupIdx],
                               {lastId + k : k \in DOMAIN list}, trans.between,
                               [k \in DOMAIN list |-> list[k].width], trans.w1, trans.w2))

\* lines 458-531: one turn of the loop of step 3
GenerateStep ==
  /\ wtpc = "generate"
  /\ stepIdx \in DOMAIN pendingTransitions
  /\ IF ActualWidePortion(pendingTransitions[stepIdx], shortenedTrackEndpoints,
                          pendingShortens)
        + pendingTransitions[stepIdx].narrowPortion < Unit
     THEN UNCHANGED <<lineStore, lastId, recordsMap, keyLog>>
     ELSE Generated(pendingTransitions[stepIdx],
                    transitionKey(pendingTransitions[stepIdx].point),
                    createWidthTransition(
                      WideStartPoint(pendingTransitions[stepIdx], shortenedTrackEndpoints),
                      pendingTransitions[stepIdx].narrowDir,
                      pendingTransitions[stepIdx].w1,
                      pendingTransitions[stepIdx].w2,
                      pendingTransitions[stepIdx].layer,
                      pendingTransitions[stepIdx].net,
                      ActualWidePortion(pendingTransitions[stepIdx], shortenedTrackEndpoints,
                                        pendingShortens)
                      + pendingTransitions[stepIdx].narrowPortion,
                      wtSettings))
  /\ stepIdx' = stepIdx + 1
  /\ UNCHANGED <<savedData, wtSettings, tracks, groupKeys, groupIdx,
                 processedPointsInCurrentRun, pairI, pairJ, pendingShortens,
                 pendingTransitions, shortenedTrackEndpoints, wtpc, passNo, passKind,
                 firstBoard, firstLog>>
  /\ UNCHANGED outsideTransition

\* line 458: the loop of step 3 is over, and so is the group
GenerateDone ==
  /\ wtpc = "generate"
  /\ stepIdx > Len(pendingTransitions)
  /\ NextGroup
  /\ UNCHANGED <<lineStore, lastId, savedData, wtSettings, tracks, groupKeys, recordsMap,
                 processedPointsInCurrentRun, passNo, passKind, firstBoard, keyLog,
                 firstLog>>
  /\ UNCHANGED outsideTransition

\* lines 536-541 and 157: the records are returned and saved
Return ==
  /\ wtpc = "analyse"
  /\ groupIdx > Len(groupKeys)
  /\ savedData' = recordsMap
  /\ wtpc' = "returned"
  /\ UNCHANGED <<lineStore, lastId, wtSettings, tracks, groupKeys, groupIdx, recordsMap,
                 processedPointsInCurrentRun, pairI, pairJ, pendingShortens,
                 pendingTransitions, shortenedTrackEndpoints, stepIdx, passNo, passKind,
                 firstBoard, keyLog, firstLog>>
  /\ UNCHANGED outsideTransition

\* the command is run again, on the board and the records the first pass left
PassAgain ==
  /\ wtpc = "returned"
  /\ passKind = "first"
  /\ BeginPass(lineStore, savedData)
  /\ passNo' = passNo + 1
  /\ passKind' = "again"
  /\ firstLog' = keyLog
  /\ keyLog' = <<>>
  /\ UNCHANGED <<lineStore, lastId, savedData, wtSettings, firstBoard>>
  /\ UNCHANGED outsideTransition

\* the tracks of store that belong to group g
OnlyGroup(store, g) == [id \in {j \in DOMAIN store : GroupKey(store[j]) = g} |-> store[id]]

\* the first pass is run once more from the start, on the board as it was
\* but holding the tracks of one group only
PassAlone ==
  /\ wtpc = "returned"
  /\ passKind = "first"
  /\ \E g \in Range(groupKeys) :
       /\ lineStore' = OnlyGroup(firstBoard, g)
       /\ BeginPass(OnlyGroup(firstBoard, g), <<>>)
  /\ savedData' = <<>>
  /\ passNo' = passNo + 1
  /\ passKind' = "alone"
  /\ firstLog' = keyLog
  /\ keyLog' = <<>>
  /\ UNCHANGED <<lastId, wtSettings, firstBoard>>
  /\ UNCHANGED outsideTransition

NextTransition ==
  \/ AnalysePair
  \/ SkipGroup
  \/ ShortenStep
  \/ ShortenDone
  \/ GenerateStep
  \/ GenerateDone
  \/ Return
  \/ PassAgain
  \/ PassAlone

SpecTransition == InitTransition /\ [][NextTransition]_transitionVars

(***************************************************************************)
(* Claims about the width-transition pass.                                 *)
(***************************************************************************)
\* the length of track t
TrackLength(t) == Length(Sub(t.end, t.start))

\* the split of the ideal length of the junction of wide and narrow, as
\* stated for a balance b taken as it is set: e is the pushed entry
StatedSplit(e, wide, narrow, idealLength, b) ==
  /\ \/ e.widePortion = Min((idealLength * b) \div 100, (9 * TrackLength(wide)) \div 10)
     \/ /\ Min((idealLength * b) \div 100, (9 * TrackLength(wide)) \div 10) < Unit
        /\ e.widePortion = 0
  /\ e.narrowPortion
       = Min((idealLength * (100 - b)) \div 100, (9 * TrackLength(narrow)) \div 10)
  /\ b = 0 => (e.widePortion = 0 /\ e.shortenTrackId = 0)
  /\ b = 100 => e.narrowPortion = 0

\* C15: whenever the analysis of a pair pushes a transition, its wide-side
\* portion is min(L * b / 100, 0.9 * wide length) and its narrow-side portion
\* is min(L * (100 - b) / 100, 0.9 * narrow length), for L = |w1 - w2| *
\* widthTransitionRatio and b = widthTransitionBalance; b = 0 leaves the wide
\* track unshortened and b = 100 puts nothing on the narrow side.
C15_BalanceSplit ==
  [][(Len(pendingTransitions') = Len(pendingTransitions) + 1) =>
       StatedSplit(pendingTransitions'[Len(pendingTransitions')],
                   IF groupTracks[pairI].width > groupTracks[pairJ].width
                   THEN groupTracks[pairI] ELSE groupTracks[pairJ],
                   IF groupTracks[pairI].width > groupTracks[pairJ].width
                   THEN groupTracks[pairJ] ELSE groupTracks[pairI],
                   Abs(fsub(groupTracks[pairI].width, groupTracks[pairJ].width))
                     * wtSettings.widthTransitionRatio,
                   wtSettings.widthTransitionBalance)
  ]_transitionVars

\* the ids of the sub-segments log says were created, and of those at key
MadeIds(log) == UNION {e.ids : e \in {f \in Range(log) : f.op = "create"}}
MadeIdsAt(log, key) ==
  UNION {e.ids : e \in {f \in Range(log) : f.op = "create" /\ f.key = key}}

\* C16: in a pass on a board an earlier pass has processed, the sub-segments
\* the earlier pass recorded for a junction are deleted before a sub-segment
\* is created there, no taper is generated at a junction with a sub-segment
\* of the earlier pass, and the records saved at the end hold, for each
\* junction that got a taper, the sub-segments of this pass only.
C16_PassesDoNotCompound ==
  passKind = "again" =>
    /\ \A k \in DOMAIN keyLog :
         keyLog[k].op = "create" =>
           /\ MadeIdsAt(firstLog, keyLog[k].key) # {} =>
                \E j \in 1..(k - 1) :
                   /\ keyLog[j].op = "delete"
                   /\ keyLog[j].key = keyLog[k].key
                   /\ MadeIdsAt(firstLog, keyLog[k].key) \subseteq keyLog[j].ids
           /\ keyLog[k].between \cap MadeIds(firstLog) = {}
    /\ wtpc = "returned" =>
         \A key \in DOMAIN savedData :
            MadeIdsAt(keyLog, key) # {} => Range(savedData[key]) = MadeIdsAt(keyLog, key)

\* the widths of seq never go up
NonIncreasing(seq) == \A k \in 1..(Len(seq) - 1) : seq[k] >= seq[k + 1]

\* the transitions generated so far in this pass
Transitions == {e \in Range(keyLog) : e.op = "create" /\ e.widths # <<>>}

DoneFor(log, g) ==
  {[op |-> e.op, key |-> e.key] : e \in {f \in Range(log) : f.group = g}}

\* C18: a pass on the tracks of one group alone creates transitions at, and
\* deletes saved records of, the same junctions of that group as the pass on
\* the whole board did.
C18_GroupsIndependent ==
  (passKind = "alone" /\ wtpc = "returned") =>
     DoneFor(keyLog, groupKeys[1]) = DoneFor(firstLog, groupKeys[1])

(***************************************************************************)
(* Claims about the end of a beautify pass (beautify.ts:740-753).          *)
(***************************************************************************)
\* C19: the width-transition pass of a beautify pass starts only from the
\* read of syncWidthTransition that follows the DRC block, when the loop is
\* over; at that read the pass can start however the loop ended; and once it
\* has started no check is issued, no context changes and control only goes
\* on to the closing snapshot and the end.
C19_TransitionsAfterLoop ==
  /\ [](pc = "sync" => ENABLED (SyncTest /\ pc' = "transition"))
  /\ [][/\ pc' = "transition" => (pc = "sync" /\ phase = "end")
        /\ pc \in {"transition", "snapshot"} =>
             /\ pc' \in {"snapshot", "done"}
             /\ phase' = "end"
             /\ checks' = checks
             /\ activePaths' = activePaths
    ]_vars

\* C19 happens: the transition pass has run after a loop that used up its
\* retries with violations still reported
C19_TransitionsAfterExhaustedLoop ==
  /\ pc = "snapshot"
  /\ callLog # <<>>
  /\ LastCall = Call("transition", 0)
  /\ checks = maxDrcRetries(settings) + 1
  /\ drcAttempt > maxDrcRetries(settings)

(***************************************************************************)
(* Commands started while another one is running (index.ts:26-120).  A     *)
(* pass is taken as the create and delete calls it issues, each awaited:   *)
(* between two of them any other started command may run.                  *)
(***************************************************************************)
MaxCommands == 2       \* command invocations the host starts
MaxCalls == 2          \* create/delete calls one pass issues

Commands == 1..MaxCommands

NotStarted == [kind |-> "none", pos |-> "idle", left |-> 0]

\* an invocation that has entered its pass and has n calls to issue
Entered(kind, n) == [kind |-> kind, pos |-> "waiting", left |-> n]

InitCommands ==
  /\ BeautifyIdle
  /\ ExtractIdle
  /\ TransitionIdle
  /\ SmoothIdle
  /\ OriginalsIdle
  /\ SnapshotIdle
  /\ cmds = [t \in Commands |-> NotStarted]
  /\ undoLock = FALSE
  /\ begun = <<>>
  /\ sinkLog = <<>>

\* index.ts:26-45, beautify.ts:281-299: smoothSelected or smoothAll enters
\* beautifyRouting, which tests no lock
BeginBeautify ==
  /\ \E t \in Commands, n \in 1..MaxCalls :
       /\ cmds[t].pos = "idle"
       /\ cmds' = [cmds EXCEPT ![t] = Entered("beautify", n)]
       /\ begun' = Append(begun, t)
  /\ UNCHANGED <<undoLock, sinkLog>>
  /\ UNCHANGED outsideCommands

\* index.ts:83-120, widthTransition.ts:59, 128: widthTransitionSelected or
\* widthTransitionAll enters its pass, which tests no lock
BeginTransition ==
  /\ \E t \in Commands, n \in 1..MaxCalls :
       /\ cmds[t].pos = "idle"
       /\ cmds' = [cmds EXCEPT ![t] = Entered("transition", n)]
       /\ begun' = Append(begun, t)
  /\ UNCHANGED <<undoLock, sinkLog>>
  /\ UNCHANGED outsideCommands

\* snapshot.ts:647-650: undoLastOperation finds the undo lock free and takes it
BeginUndo ==
  /\ ~undoLock
  /\ \E t \in Commands, n \in 1..MaxCalls :
       /\ cmds[t].pos = "idle"
       /\ cmds' = [cmds EXCEPT ![t] = Entered("undo", n)]
       /\ begun' = Append(begun, t)
  /\ undoLock' = TRUE
  /\ UNCHANGED sinkLog
  /\ UNCHANGED outsideCommands

\* snapshot.ts:648-649: undoLastOperation finds the undo lock held and returns
UndoRefused ==
  /\ undoLock
  /\ \E t \in Commands :
       /\ cmds[t].pos = "idle"
       /\ cmds' = [cmds EXCEPT ![t] = [kind |-> "undo", pos |-> "finished", left |-> 0]]
  /\ UNCHANGED <<undoLock, begun, sinkLog>>
  /\ UNCHANGED outsideCommands

\* a pass that was waiting issues its next create or delete call
\* (beautify.ts:713-716 and commitOps, widthTransition.ts:315, 444-445, 656,
\* restoreSnapshot of snapshot.ts:697)
SinkCall ==
  /\ \E t \in Commands, call \in {"create", "delete"} :
       /\ cmds[t].pos = "waiting"
       /\ cmds[t].left > 0
       /\ cmds' = [cmds EXCEPT ![t].left = @ - 1]
       /\ sinkLog' = Append(sinkLog, [task |-> t, kind |-> cmds[t].kind, call |-> call])
  /\ UNCHANGED <<undoLock, begun>>
  /\ UNCHANGED outsideCommands

\* the pass of an invocation ends (for undo: the finally of snapshot.ts:714-716
\* frees the lock)
Finish ==
  /\ \E t \in Commands :
       /\ cmds[t].pos = "waiting"
       /\ cmds[t].left = 0
       /\ cmds' = [cmds EXCEPT ![t].pos = "finished"]
       /\ begun' = SelectSeq(begun, LAMBDA u : u # t)
       /\ undoLock' = IF cmds[t].kind = "undo" THEN FALSE ELSE undoLock
  /\ UNCHANGED sinkLog
  /\ UNCHANGED outsideCommands

NextCommands ==
  \/ BeginBeautify
  \/ BeginTransition
  \/ BeginUndo
  \/ UndoRefused
  \/ SinkCall
  \/ Finish

SpecCommands == InitCommands /\ [][NextCommands]_commandVars

\* C20: a create or delete call reaches the host only from the pass that
\* began first among the passes that have begun and not finished: no other
\* pass issues one until that pass has finished.
C20_PassesDoNotInterleave ==
  [][sinkLog' # sinkLog => sinkLog'[Len(sinkLog')].task = Head(begun)]_commandVars

(***************************************************************************)
(* generatePathOps (beautify.ts:50-275) as a process of its own: the call  *)
(* is taken one loop iteration at a time, on paths and corner states drawn *)
(* from a catalogue, and every iteration on a corner leaves in cornerLog   *)
(* the tangent length and the effective radius it computed.                *)
(***************************************************************************)
\* Scenario A: three segments of width 10, two collinear, then a right angle
PathA ==
  [points |-> <<Pt(0, 0), Pt(1400, 0), Pt(2800, 0), Pt(2800, 1400)>>,
   widths |-> <<200, 200, 200>>]
PathATurned ==
  [points |-> <<Pt(0, 0), Pt(0, -1500), Pt(0, -3000), Pt(1600, -3000)>>,
   widths |-> <<200, 200, 200>>]
\* Scenario C: a corner whose shorter leg is 2 units long
PathC == [points |-> <<Pt(0, 0), Pt(400, 0), Pt(400, 40)>>, widths |-> <<30, 30>>]
PathCWide == [points |-> <<Pt(0, 0), Pt(400, 0), Pt(400, 40)>>, widths |-> <<100, 100>>]
\* a U-turn with short outer legs, leaving on a wider segment
PathUShort ==
  [points |-> <<Pt(0, 0), Pt(100, 0), Pt(120, 20), Pt(120, 140)>>,
   widths |-> <<200, 200, 240>>]
\* fewer than 3 points
PathTwo == [points |-> <<Pt(0, 0), Pt(400, 0)>>, widths |-> <<40>>]

SmoothPaths == {PathA, PathATurned, PathC, PathCWide, PathU, PathUShort, PathW, PathTwo}

\* the settings generatePathOps reads
SmoothSettings ==
  [forceArc : BOOLEAN, mergeTransitionSegments : BOOLEAN, cornerRadiusRatio : {30, 100}]

\* the corner states a check cycle can hand over
SmoothScales == {<<>>, MapSet(<<>>, 1, ScaleOne \div 2), MapSet(<<>>, 2, ScaleOne \div 2)}
SmoothBad == {{}, {1}, {2}}

Interior(pts) == 1 .. (Len(pts) - 2)

SmoothCalls ==
  {[points |-> p.points, widths |-> p.widths, settings |-> s, badCorners |-> b,
    cornerScales |-> m] :
     p \in SmoothPaths, s \in SmoothSettings, b \in SmoothBad, m \in SmoothScales}

\* corner i of the call under way (beautify.ts:78-103)
CornerOf(sm, i) == Corner(sm.points, sm.widths, sm.settings, sm.cornerScales, i)

\* beautify.ts:190-203: d, actualD and effectiveRadius of the ordinary corner
NormalFilletAt(c) ==
  Fillet(TanHalf(Sub(c.pPrev, c.pCorner), Sub(c.pNext, c.pCorner),
                 dist(c.pPrev, c.pCorner), dist(c.pNext, c.pCorner)),
         c.radius, Div(9 * Min(dist(c.pPrev, c.pCorner), dist(c.pNext, c.pCorner)), 20))

\* beautify.ts:126-143: t_d, t_actualD and t_effectiveRadius of a merged pair
MergeFilletOn(c, pAfter, inter) ==
  Fillet(TanHalf(Sub(c.pPrev, inter), Sub(pAfter, inter),
                 dist(c.pPrev, inter), dist(pAfter, inter)),
         c.radius, Div(19 * Min(dist(c.pPrev, inter), dist(pAfter, inter)), 20))

MergeFilletAt(c, pAfter) ==
  MergeFilletOn(c, pAfter, getLineIntersection(c.pPrev, c.pCorner, c.pNext, pAfter)[1])

HasArc(ops) == \E k \in DOMAIN ops : ops[k].type = "arc"

\* the ordinary corner under a given value of settings.forceArc
NormalUnder(c, sm, i, cur, force) ==
  NormalCorner(c, [sm.settings EXCEPT !.forceArc = force], i, cur)

\* what an iteration leaves in cornerLog
CornerEntry(i, kind, c, f, leg, ops, forced, unforced) ==
  [i |-> i, kind |-> kind, d |-> f.d, actualD |-> f.actualD,
   effectiveRadius |-> f.effectiveRadius, radius |-> c.radius,
   maxLineWidth |-> c.maxLineWidth, leg |-> leg, arc |-> HasArc(ops),
   arcIfForced |-> HasArc(forced), arcIfUnforced |-> HasArc(unforced)]

InitSmoother ==
  /\ smoothing \in SmoothCalls
  /\ loopI = 1
  /\ currentStart = smoothing.points[1]
  /\ pathOps = <<>>
  /\ cornerLog = <<>>
  /\ BeautifyIdle
  /\ ExtractIdle
  /\ TransitionIdle
  /\ CommandIdle
  /\ OriginalsIdle
  /\ SnapshotIdle

\* the loop is at a corner: i < points.length - 1 and points.length >= 3
AtCorner ==
  /\ loopI >= 1
  /\ Len(smoothing.points) >= 3
  /\ loopI < Len(smoothing.points) - 1

\* beautify.ts:59-60: fewer than 3 points, no ops
ReturnNoOps ==
  /\ loopI = 1
  /\ Len(smoothing.points) < 3
  /\ loopI' = 0
  /\ UNCHANGED <<smoothing, currentStart, pathOps, cornerLog>>
  /\ UNCHANGED outsideSmoother

\* beautify.ts:91-101: a bad corner gets the straight line to the corner
SharpCorner ==
  /\ AtCorner
  /\ loopI \in smoothing.badCorners
  /\ pathOps' = Append(pathOps, LineOp(currentStart, PointAt(smoothing.points, loopI),
                                       WidthAt(smoothing.widths, loopI - 1), loopI))
  /\ currentStart' = PointAt(smoothing.points, loopI)
  /\ loopI' = loopI + 1
  /\ UNCHANGED <<smoothing, cornerLog>>
  /\ UNCHANGED outsideSmoother

\* the merge attempt of the iteration at loopI, c being its corner
MergeTried(c) ==
  TryMerge(c, smoothing.points, smoothing.widths, smoothing.settings,
           smoothing.badCorners, smoothing.cornerScales, loopI, currentStart)

\* the shorter of two lengths
Shorter(a, b) == Min(a, b)

\* beautify.ts:144-183: the merged arc is emitted and the loop skips corner i+1
MergedWith(c, merge, fillet, leg) ==
  /\ merge.merged
  /\ pathOps' = pathOps \o merge.ops
  /\ currentStart' = merge.cur
  /\ loopI' = loopI + 2
  /\ cornerLog' = Append(cornerLog, CornerEntry(loopI, "merged", c, fillet, leg,
                                                merge.ops, merge.ops, merge.ops))

\* beautify.ts:105-183: corners i and i+1 merged into one arc, i++
MergedCorner ==
  /\ AtCorner
  /\ loopI \notin smoothing.badCorners
  /\ MergedWith(CornerOf(smoothing, loopI), MergeTried(CornerOf(smoothing, loopI)),
                MergeFilletAt(CornerOf(smoothing, loopI),
                              PointAt(smoothing.points, loopI + 2)),
                Shorter(dist(PointAt(smoothing.points, loopI - 1),
                             PointAt(smoothing.points, loopI)),
                        dist(PointAt(smoothing.points, loopI + 1),
                             PointAt(smoothing.points, loopI + 2))))
  /\ UNCHANGED smoothing
  /\ UNCHANGED outsideSmoother

\* beautify.ts:186-261: the ops of the ordinary corner are emitted; forced and
\* unforced are the corner under forceArc and without it
OrdinaryWith(c, merge, forced, unforced, fillet, leg) ==
  /\ ~merge.merged
  /\ pathOps' = pathOps \o (IF smoothing.settings.forceArc THEN forced ELSE unforced).ops
  /\ currentStart' = (IF smoothing.settings.forceArc THEN forced ELSE unforced).cur
  /\ loopI' = loopI + 1
  /\ cornerLog' =
       Append(cornerLog,
              CornerEntry(loopI, "normal", c, fillet, leg,
                          (IF smoothing.settings.forceArc THEN forced ELSE unforced).ops,
                          forced.ops, unforced.ops))

\* beautify.ts:186-261: the ordinary corner
OrdinaryCorner ==
  /\ AtCorner
  /\ loopI \notin smoothing.badCorners
  /\ OrdinaryWith(CornerOf(smoothing, loopI), MergeTried(CornerOf(smoothing, loopI)),
                  NormalUnder(CornerOf(smoothing, loopI), smoothing, loopI,
                              currentStart, TRUE),
                  NormalUnder(CornerOf(smoothing, loopI), smoothing, loopI,
                              currentStart, FALSE),
                  NormalFilletAt(CornerOf(smoothing, loopI)),
                  Shorter(dist(PointAt(smoothing.points, loopI - 1),
                               PointAt(smoothing.points, loopI)),
                          dist(PointAt(smoothing.points, loopI),
                               PointAt(smoothing.points, loopI + 1))))
  /\ UNCHANGED smoothing
  /\ UNCHANGED outsideSmoother

\* beautify.ts:264-272: the last straight line
ClosingLine ==
  /\ loopI >= 1
  /\ Len(smoothing.points) >= 3
  /\ loopI >= Len(smoothing.points) - 1
  /\ pathOps' = Append(pathOps,
                       LineOp(currentStart,
                              PointAt(smoothing.points, Len(smoothing.points) - 1),
                              WidthAt(smoothing.widths, Len(smoothing.widths) - 1),
                              Len(smoothing.points) - 1))
  /\ loopI' = 0
  /\ UNCHANGED <<smoothing, currentStart, cornerLog>>
  /\ UNCHANGED outsideSmoother

NextSmoother == ReturnNoOps \/ SharpCorner \/ MergedCorner \/ OrdinaryCorner \/ ClosingLine

SpecSmoother == InitSmoother /\ [][NextSmoother]_smoothVars

\* the call has returned
Returned == smoothing # <<>> /\ loopI = 0

\* the iterations add up to what generatePathOps returns
SmootherAgrees ==
  Returned => pathOps = generatePathOps(smoothing.points, smoothing.widths,
                                        smoothing.settings, smoothing.badCorners,
                                        smoothing.cornerScales)

\* the corners of the call under way at which an arc was emitted
ArcEntries == {k \in DOMAIN cornerLog : cornerLog[k].arc}

\* settings.forceArc matters at this corner
ForceArcMatters(e) == e.arcIfForced # e.arcIfUnforced

\* the corner is rejected by the length clamp (beautify.ts:208)
ClampRejects(e) == e.d >= 1 /\ 20 * e.actualD < 19 * e.d

\* the corner passes the width floor (beautify.ts:215)
FloorPasses(e) == 2 * e.effectiveRadius >= e.maxLineWidth - 2

C22_TangentWithin45Percent ==
  \A k \in ArcEntries : 20 * cornerLog[k].actualD <= 9 * cornerLog[k].leg

\* the call is Scenario A: three segments of width 10, the first two in one
\* line, then a right angle, ratio 3.0, legs long enough not to clamp, and
\* no corner state left by a check cycle at the turn
ScenarioA(sm) ==
  /\ Len(sm.points) = 4
  /\ \A k \in DOMAIN sm.widths : sm.widths[k] = 10 * CoordUnit
  /\ Cross(Sub(sm.points[2], sm.points[1]), Sub(sm.points[3], sm.points[2])) = 0
  /\ Dot(Sub(sm.points[2], sm.points[1]), Sub(sm.points[3], sm.points[2])) > 0
  /\ Dot(Sub(sm.points[3], sm.points[2]), Sub(sm.points[4], sm.points[3])) = 0
  /\ sm.settings.cornerRadiusRatio = 30
  /\ 9 * Min(dist(sm.points[2], sm.points[3]), dist(sm.points[3], sm.points[4]))
       >= 20 * 30 * CoordUnit
  /\ 2 \notin sm.badCorners
  /\ 2 \notin DOMAIN sm.cornerScales

\* the arcs among the ops pushed
ArcsOf(ops) == {k \in DOMAIN ops : ops[k].type = "arc"}

\* Scenario A with the effective radius r (in host units) at the turn
ScenarioAOutcome(r) ==
  (Returned /\ ScenarioA(smoothing)) =>
    /\ Cardinality(ArcsOf(pathOps)) = 1
    /\ \A k \in ArcsOf(pathOps) : Abs(pathOps[k].angle) = 90
    /\ \E k \in DOMAIN cornerLog :
         /\ cornerLog[k].i = 2
         /\ cornerLog[k].arc
         /\ cornerLog[k].effectiveRadius = r * CoordUnit

\* C24 as stated: Scenario A gives exactly one arc, of sweep 90 degrees in
\* magnitude, with effective radius 15.
C24_ScenarioARadius15 == ScenarioAOutcome(15)

\* C24 as the code has it: Scenario A gives exactly one arc, of sweep 90
\* degrees in magnitude, with effective radius 30 (width 10 times ratio 3.0).
C24_ScenarioARadius30 == ScenarioAOutcome(30)

\* Scenario A has been smoothed and its one arc pushed
C24_ScenarioASmoothed ==
  /\ Returned
  /\ ScenarioA(smoothing)
  /\ ArcsOf(pathOps) # {}

(***************************************************************************)
(* The DRC loop of beautifyRouting (beautify.ts:647-735): what one check   *)
(* cycle does to the corner scales.                                        *)
(***************************************************************************)
\* the scale of corner idx of path p before and after a step
ScaleBefore(p, idx) == currentScale(activePaths[p].cornerScales, idx)
ScaleAfter(p, idx) == currentScale(activePaths'[p].cornerScales, idx)

\* C27: one check cycle leaves a corner's scale as it was or multiplies it by
\* exactly 1/2, however many of the corner's primitives the check reports.
C27_HalvedOncePerCycle ==
  [][\A p \in DOMAIN activePaths :
       p \in DOMAIN activePaths' =>
         \A idx \in DOMAIN activePaths'[p].cornerScales :
           \/ ScaleAfter(p, idx) = ScaleBefore(p, idx)
           \/ ScaleAfter(p, idx) = nextScale(ScaleBefore(p, idx))]_vars

\* the primitives of path p that this pass created and the host still holds
HeldFor(p) == {id \in DOMAIN host : host[id].path = p}

\* the ids in the created-id list of path p
TrackedFor(p) == {activePaths[p].createdIds[k] : k \in DOMAIN activePaths[p].createdIds}

\* C28: whenever the oracle is about to be checked, the created-id list of
\* every path is exactly the set of primitives the host holds that this pass
\* created for that path.
C28_CreatedIdsAreHostState ==
  pc = "check" => \A p \in DOMAIN activePaths : TrackedFor(p) = HeldFor(p)

\* op k of ops is the one arc of a U-turn merge: an arc attributed to corner
\* i while no op is attributed to the interior corner i + 1
MergedOver(ops, k, pts) ==
  /\ ops[k].type = "arc"
  /\ ops[k].cornerIndex + 1 <= Len(pts) - 2
  /\ \A j \in DOMAIN ops : ops[j].cornerIndex # ops[k].cornerIndex + 1

\* C29: the ops of a redraw hold no merged arc that spans a corner whose
\* scale the DRC loop has reduced: the merged arc is computed from the full
\* radius of the corner where the merge starts.
C29_NoFullArcOverReducedCorner ==
  (phase = "redraw" /\ pc = "create") =>
    \A k \in DOMAIN pendingOps :
      MergedOver(pendingOps, k, activePaths[pathIdx].points) =>
        (pendingOps[k].cornerIndex + 1) \notin DOMAIN activePaths[pathIdx].cornerScales

\* the two tracks of a registered transition leave their junction within
\* about 7.5 degrees of opposite directions: cos <= -0.991
NearlyStraight(e) ==
  Dot(e.wideDir, e.narrowDir)
    <= -(991 * ((Length(e.wideDir) * Length(e.narrowDir)) \div 1000))

\* C23: two differently-wide segments sharing an endpoint get a transition
\* only if they continue each other within about 7.5 degrees of a straight
\* line; a pair that bends more, or that is folded back on itself, gets none.
C23_OnlyStraightPairs ==
  \A k \in DOMAIN pendingTransitions : NearlyStraight(pendingTransitions[k])

(***************************************************************************)
(* beautifyRouting from the primitives it is given to the optimistic pass  *)
(* (beautify.ts:300-645): polylines are exploded into one virtual line per *)
(* side, the paths are extracted as above, the originals of every path of  *)
(* 3 or more points are deleted, and the ops of the kept paths are drawn.  *)
(* Ids 1..9 are primitives of the host; side k of the polyline with id p   *)
(* has the id (10 * p + k), the code's `${primId}_seg${k}`.                *)
(***************************************************************************)
Line(id, p1, p2) == [id |-> id, type |-> "Line", pts |-> <<p1, p2>>]
Polyline(id, pts) == [id |-> id, type |-> "Polyline", pts |-> pts]

\* a polyline of three sides and a line branching off at its third point
PrimsBranch ==
  <<Polyline(1, <<Pt(0, 0), Pt(4000, 0), Pt(4000, 4000), Pt(8000, 4000)>>),
    Line(2, Pt(4000, 4000), Pt(4000, 8000))>>
\* the polyline alone
PrimsPolyline == <<Polyline(1, <<Pt(0, 0), Pt(4000, 0), Pt(4000, 4000), Pt(8000, 4000)>>)>>
\* two lines at a right angle, and a line apart from them
PrimsLines ==
  <<Line(2, Pt(0, 0), Pt(4000, 0)), Line(3, Pt(4000, 0), Pt(4000, 4000)),
    Line(4, Pt(8000, 8000), Pt(12000, 8000))>>
\* a polyline of two sides continued by a line, and a line branching off
PrimsMixed ==
  <<Polyline(1, <<Pt(0, 0), Pt(4000, 0), Pt(4000, 4000)>>),
    Line(2, Pt(4000, 4000), Pt(8000, 4000)),
    Line(3, Pt(8000, 4000), Pt(8000, 8000))>>

PrimBoards == {PrimsBranch, PrimsPolyline, PrimsLines, PrimsMixed}

\* lines 318-341: the virtual lines of a polyline, one per side
Sides(prim) == [k \in 1..(Len(prim.pts) - 1) |-> Seg(10 * prim.id + (k - 1), prim.pts[k], prim.pts[k + 1])]

RECURSIVE Exploded(_, _)
\* lines 314-346: tracks, from the primitives in the order they were handed over
Exploded(prims, i) ==
  IF i > Len(prims) THEN <<>>
  ELSE (IF prims[i].type = "Polyline" THEN Sides(prims[i])
        ELSE <<Seg(prims[i].id, prims[i].pts[1], prims[i].pts[2])>>)
       \o Exploded(prims, i + 1)

\* seg.track._isPolylineSegment and the id of seg.track._originalPolyline
IsPolylineSegment(seg) == seg.id >= 10
OriginalOf(seg) == IF IsPolylineSegment(seg) THEN seg.id \div 10 ELSE seg.id

RECURSIVE PolylineIdsFrom(_, _, _)
\* lines 497-517: polylineIdsToDelete, in insertion order
PolylineIdsFrom(list, i, ids) ==
  IF i > Len(list) THEN ids
  ELSE PolylineIdsFrom(list, i + 1,
                       IF IsPolylineSegment(list[i])
                          /\ \A k \in DOMAIN ids : ids[k] # OriginalOf(list[i])
                       THEN Append(ids, OriginalOf(list[i])) ELSE ids)

polylineIdsToDelete(path) == PolylineIdsFrom(path.orderedSegs, 1, <<>>)

\* lines 518-521: lineIdsToDelete
lineIdsToDelete(path) ==
  {path.orderedSegs[k].id : k \in {j \in DOMAIN path.orderedSegs :
                                     ~IsPolylineSegment(path.orderedSegs[j])}}

InitOriginals ==
  /\ BeautifyIdle
  /\ TransitionIdle
  /\ CommandIdle
  /\ SmoothIdle
  /\ SnapshotIdle
  /\ \E b \in PrimBoards : selection \in Reorderings(b)
  /\ present = {selection[k].id : k \in DOMAIN selection}
  /\ handled = 0
  /\ committed = 0
  /\ segs = Exploded(selection, 1)
  /\ connections = <<>>
  /\ used = {}
  /\ points = <<>>
  /\ orderedSegs = <<>>
  /\ startIdx = 0
  /\ walk = "index"
  /\ extracted = <<>>
  /\ run = 1
  /\ firstExtracted = {}

\* a step of the path extraction
ExtractionStep ==
  /\ (BuildIndex \/ SkipUsed \/ StartPath \/ ExtendEnd \/ ExtendStart \/ ClosePath
        \/ ExtractDone)
  /\ UNCHANGED originalVars

(***************************************************************************)
(* lines 493-566 for the next kept path: the polylines are deleted one by  *)
(* one inside one try (a throw leaves the rest in the host), every line in *)
(* a try of its own; the failures are swallowed and the path is pushed to  *)
(* activePaths.                                                            *)
(***************************************************************************)
DeleteOriginals ==
  /\ handled < Len(extracted)
  /\ \E n \in 0..Len(polylineIdsToDelete(extracted[handled + 1])) :
       \E failed \in SUBSET lineIdsToDelete(extracted[handled + 1]) :
         present' =
           present \ ({polylineIdsToDelete(extracted[handled + 1])[k] : k \in 1..n}
                      \cup (lineIdsToDelete(extracted[handled + 1]) \ failed))
  /\ handled' = handled + 1
  /\ UNCHANGED <<selection, committed>>
  /\ UNCHANGED extractVars
  /\ UNCHANGED outsideOriginals

\* lines 636-645: the ops of the next path of activePaths are created
CommitPath ==
  /\ walk = "done"
  /\ handled = Len(extracted)
  /\ committed < handled
  /\ committed' = committed + 1
  /\ UNCHANGED <<selection, present, handled>>
  /\ UNCHANGED extractVars
  /\ UNCHANGED outsideOriginals

NextOriginals == ExtractionStep \/ DeleteOriginals \/ CommitPath

SpecOriginals == InitOriginals /\ [][NextOriginals]_<<extractVars, originalVars>>

\* the optimistic pass is over
AllCommitted == walk = "done" /\ handled = Len(extracted) /\ committed = handled

\* seg is a segment of one of the paths whose ops have been created
Redrawn(seg) ==
  \E k \in 1..committed : \E j \in DOMAIN extracted[k].orderedSegs :
    extracted[k].orderedSegs[j].id = seg.id

\* C26: when the optimistic pass is over, every input segment is still in
\* the host with its original primitive, or belongs to a path whose ops were
\* drawn; in particular the sides of a polyline that fell into a discarded
\* chain are not lost when the polyline is deleted for another path.
C26_NoSegmentLost ==
  AllCommitted =>
    \A i \in DOMAIN segs : OriginalOf(segs[i]) \in present \/ Redrawn(segs[i])

(***************************************************************************)
(* The snapshot module (snapshot.ts): createSnapshot as beautifyRouting    *)
(* calls it for its ' Before' and ' After' snapshots, and undoLastOperation *)
(* taken from one await to the next, so that a second invocation can start *)
(* while the first one waits.  A snapshot is [id, after, data]: after says *)
(* that its name ends in ' After', data is the routing it holds.           *)
(***************************************************************************)
MaxMade == 3           \* snapshots made in one run
MaxUndoCalls == 3      \* invocations of undoLastOperation in one run
SNAPSHOT_LIMIT == 20

Pcbs == {1}
Undoers == {1, 2}

\* an invocation that is not running; last is how its latest run ended
Resting(last) == [pos |-> "idle", pcb |-> 0, list |-> <<>>, pointer |-> 0, target |-> 0, last |-> last]

\* Array.prototype.findIndex on s.id === id: the 0-based position, or -1
findIndex(auto, id) ==
  IF \E k \in DOMAIN auto : auto[k].id = id
  THEN (CHOOSE k \in DOMAIN auto : auto[k].id = id /\ \A j \in 1..(k - 1) : auto[j].id # id) - 1
  ELSE -1

\* faulty variant of startIndex: the snapshot restored last is taken again
startIndexSame(auto, last) ==
  IF last # 0
  THEN (IF findIndex(auto, last) # -1 THEN findIndex(auto, last) ELSE 0)
  ELSE IF Len(auto) > 0 /\ auto[1].after THEN 1 ELSE 0

\* snapshot.ts:674-690: the 0-based position of the snapshot to restore
startIndex(auto, last) ==
  IF last # 0
  THEN (IF findIndex(auto, last) # -1 THEN findIndex(auto, last) + 1 ELSE 0)
  ELSE IF Len(auto) > 0 /\ auto[1].after THEN 1 ELSE 0

\* faulty variant of Released: the lock is left as it is
ReleasedNever(lock) == lock

\* snapshot.ts:714-715: finally { setUndoing(false) }
Released(lock) == FALSE

\* snapshot.ts:354-363: the automatic snapshots newer than the one restored
\* last are dropped
Truncated(auto, last) ==
  IF last # 0 /\ findIndex(auto, last) > 0
  THEN SubSeq(auto, findIndex(auto, last) + 1, Len(auto))
  ELSE auto

\* snapshot.ts:387-392: unshift, then the list is cut to SNAPSHOT_LIMIT
Unshifted(auto, snap) ==
  IF Len(auto) + 1 > SNAPSHOT_LIMIT THEN SubSeq(<<snap>> \o auto, 1, SNAPSHOT_LIMIT)
  ELSE <<snap>> \o auto

InitUndo ==
  /\ BeautifyIdle
  /\ ExtractIdle
  /\ TransitionIdle
  /\ CommandIdle
  /\ SmoothIdle
  /\ OriginalsIdle
  /\ autoLists = [p \in Pcbs |-> <<>>]
  /\ pcbContent = [p \in Pcbs |-> 0]
  /\ currentPcb = 1
  /\ lastRestoredId = 0
  /\ undoers = [t \in Undoers |-> Resting("none")]
  /\ undone = <<>>
  /\ made = 0
  /\ calls = 0

\* the state SpecUndo leaves alone
outsideUndo ==
  <<vars, extractVars, transitionVars, smoothVars, originalVars, cmds, begun, sinkLog>>

\* the user opens another PCB, or closes the one shown
SwitchPcb ==
  /\ \E p \in (Pcbs \cup {0}) \ {currentPcb} : currentPcb' = p
  /\ UNCHANGED <<autoLists, pcbContent, lastRestoredId, undoers, undone, made, calls,
                 undoLock>>
  /\ UNCHANGED outsideUndo

\* a command changes the routing of the PCB shown (beautify.ts:493-761); the
\* new routing is one that no snapshot holds yet
EditBoard ==
  /\ currentPcb # 0
  /\ pcbContent[currentPcb] # made + 1
  /\ pcbContent' = [pcbContent EXCEPT ![currentPcb] = made + 1]
  /\ UNCHANGED <<autoLists, currentPcb, lastRestoredId, undoers, undone, made, calls,
                 undoLock>>
  /\ UNCHANGED outsideUndo

\* snapshot.ts:365-384: the snapshot taken now holds the routing of the newest
\* snapshot of the list
isIdentical(auto, data) == auto # <<>> /\ Head(auto).data = data

\* snapshot.ts:312-400: createSnapshot(name, false) on the PCB shown.  The
\* list is the cached one (76-87), so the truncation stays when the snapshot
\* is identical to the newest one and nothing is stored; the pointer is
\* reset whenever it was set.
CreateSnapshot ==
  /\ currentPcb # 0
  /\ lastRestoredId' = 0
  /\ \/ /\ isIdentical(Truncated(autoLists[currentPcb], lastRestoredId),
                        pcbContent[currentPcb])
        /\ \/ lastRestoredId # 0
           \/ Truncated(autoLists[currentPcb], lastRestoredId) # autoLists[currentPcb]
        /\ autoLists' = [autoLists EXCEPT ![currentPcb] = Truncated(@, lastRestoredId)]
        /\ UNCHANGED made
     \/ /\ ~isIdentical(Truncated(autoLists[currentPcb], lastRestoredId),
                         pcbContent[currentPcb])
        /\ made < MaxMade
        /\ made' = made + 1
        /\ \E isAfter \in BOOLEAN :
             autoLists' = [autoLists EXCEPT ![currentPcb] =
                 Unshifted(Truncated(@, lastRestoredId),
                           [id |-> made + 1, after |-> isAfter,
                            data |-> pcbContent[currentPcb]])]
  /\ UNCHANGED <<pcbContent, currentPcb, undoers, undone, calls, undoLock>>
  /\ UNCHANGED outsideUndo

\* snapshot.ts:648-649: the lock is held, the invocation returns at once
UndoBusy ==
  /\ undoLock
  /\ calls < MaxUndoCalls
  /\ calls' = calls + 1
  /\ \E t \in Undoers :
       /\ undoers[t].pos = "idle"
       /\ undoers' = [undoers EXCEPT ![t] = Resting("refused")]
  /\ UNCHANGED <<autoLists, pcbContent, currentPcb, lastRestoredId, undone, made, undoLock>>
  /\ UNCHANGED outsideUndo

\* snapshot.ts:648-657: the lock is free and taken; getCurrentPcbInfoSafe is awaited
UndoEnter ==
  /\ ~undoLock
  /\ calls < MaxUndoCalls
  /\ calls' = calls + 1
  /\ undoLock' = TRUE
  /\ \E t \in Undoers :
       /\ undoers[t].pos = "idle"
       /\ undoers' = [undoers EXCEPT ![t].pos = "pcb"]
  /\ UNCHANGED <<autoLists, pcbContent, currentPcb, lastRestoredId, undone, made>>
  /\ UNCHANGED outsideUndo

\* snapshot.ts:658-661, 714-715: no PCB, return through the finally
UndoNoPcb ==
  /\ currentPcb = 0
  /\ \E t \in Undoers :
       /\ undoers[t].pos = "pcb"
       /\ undoers' = [undoers EXCEPT ![t] = Resting("nopcb")]
  /\ undoLock' = Released(undoLock)
  /\ UNCHANGED <<autoLists, pcbContent, currentPcb, lastRestoredId, undone, made, calls>>
  /\ UNCHANGED outsideUndo

\* snapshot.ts:663-664: getPcbStorageData(pcbId) is awaited
UndoGotPcb ==
  /\ currentPcb # 0
  /\ \E t \in Undoers :
       /\ undoers[t].pos = "pcb"
       /\ undoers' = [undoers EXCEPT ![t].pos = "storage", ![t].pcb = currentPcb]
  /\ UNCHANGED <<autoLists, pcbContent, currentPcb, lastRestoredId, undone, made, calls,
                 undoLock>>
  /\ UNCHANGED outsideUndo

\* snapshot.ts:709-715: a host call inside the try throws; catch, then finally
UndoThrows ==
  /\ \E t \in Undoers :
       /\ undoers[t].pos = "storage"
       /\ undoers' = [undoers EXCEPT ![t] = Resting("threw")]
  /\ undoLock' = Released(undoLock)
  /\ UNCHANGED <<autoLists, pcbContent, currentPcb, lastRestoredId, undone, made, calls>>
  /\ UNCHANGED outsideUndo

\* snapshot.ts:667-670, 714-715: no automatic snapshot, return through the finally
UndoEmpty ==
  /\ \E t \in Undoers :
       /\ undoers[t].pos = "storage"
       /\ autoLists[undoers[t].pcb] = <<>>
       /\ undoers' = [undoers EXCEPT ![t] = Resting("empty")]
  /\ undoLock' = Released(undoLock)
  /\ UNCHANGED <<autoLists, pcbContent, currentPcb, lastRestoredId, undone, made, calls>>
  /\ UNCHANGED outsideUndo

\* snapshot.ts:692-694, 706-708, 714-715: startIndex is past the end of the list
UndoAtEnd ==
  /\ \E t \in Undoers :
       /\ undoers[t].pos = "storage"
       /\ autoLists[undoers[t].pcb] # <<>>
       /\ ~(startIndex(autoLists[undoers[t].pcb], lastRestoredId)
              < Len(autoLists[undoers[t].pcb]))
       /\ undoers' = [undoers EXCEPT ![t] = Resting("end")]
  /\ undoLock' = Released(undoLock)
  /\ UNCHANGED <<autoLists, pcbContent, currentPcb, lastRestoredId, undone, made, calls>>
  /\ UNCHANGED outsideUndo

\* snapshot.ts:672-697: the target is chosen and restoreSnapshot is awaited
UndoPick ==
  /\ \E t \in Undoers :
       /\ undoers[t].pos = "storage"
       /\ autoLists[undoers[t].pcb] # <<>>
       /\ startIndex(autoLists[undoers[t].pcb], lastRestoredId)
            < Len(autoLists[undoers[t].pcb])
       /\ undoers' = [undoers EXCEPT
            ![t].pos = "restore",
            ![t].list = autoLists[undoers[t].pcb],
            ![t].pointer = lastRestoredId,
            ![t].target = startIndex(autoLists[undoers[t].pcb], lastRestoredId) + 1]
  /\ UNCHANGED <<autoLists, pcbContent, currentPcb, lastRestoredId, undone, made, calls,
                 undoLock>>
  /\ UNCHANGED outsideUndo

\* the snapshot restoreSnapshot finds for the awaited id in the PCB shown
Found(u) ==
  /\ currentPcb # 0
  /\ findIndex(autoLists[currentPcb], u.list[u.target].id) # -1

\* what undoLastOperation leaves in undone
Restore(u) ==
  [pcb |-> currentPcb, list |-> u.list, pointer |-> u.pointer, index |-> u.target,
   id |-> u.list[u.target].id, made |-> made]

\* snapshot.ts:418-596 returning true (the routing is the snapshot's, the
\* pointer is set at 593), then 698-705 and the finally
UndoRestored ==
  /\ \E t \in Undoers :
       /\ undoers[t].pos = "restore"
       /\ Found(undoers[t])
       /\ pcbContent' = [pcbContent EXCEPT ![currentPcb] =
                           undoers[t].list[undoers[t].target].data]
       /\ lastRestoredId' = undoers[t].list[undoers[t].target].id
       /\ undone' = Append(undone, Restore(undoers[t]))
       /\ undoers' = [undoers EXCEPT ![t] = Resting("restored")]
  /\ undoLock' = Released(undoLock)
  /\ UNCHANGED <<autoLists, currentPcb, made, calls>>
  /\ UNCHANGED outsideUndo

\* snapshot.ts:420-450, 597-602 returning false before any primitive is
\* touched (no PCB, snapshot not found, a throw), then the finally
UndoRestoreFailed ==
  /\ \E t \in Undoers :
       /\ undoers[t].pos = "restore"
       /\ undoers' = [undoers EXCEPT ![t] = Resting("failed")]
  /\ undoLock' = Released(undoLock)
  /\ UNCHANGED <<autoLists, pcbContent, currentPcb, lastRestoredId, undone, made, calls>>
  /\ UNCHANGED outsideUndo

\* snapshot.ts:548-587, 597-602 returning false after a delete or create of
\* the restore has thrown: the routing is neither the old one nor the snapshot's
UndoRestoreBroke ==
  /\ \E t \in Undoers :
       /\ undoers[t].pos = "restore"
       /\ Found(undoers[t])
       /\ undoers' = [undoers EXCEPT ![t] = Resting("failed")]
       /\ pcbContent' = [pcbContent EXCEPT ![currentPcb] = made + 1]
  /\ undoLock' = Released(undoLock)
  /\ UNCHANGED <<autoLists, currentPcb, lastRestoredId, undone, made, calls>>
  /\ UNCHANGED outsideUndo

NextUndo ==
  \/ SwitchPcb
  \/ EditBoard
  \/ CreateSnapshot
  \/ UndoBusy
  \/ UndoEnter
  \/ UndoNoPcb
  \/ UndoGotPcb
  \/ UndoThrows
  \/ UndoEmpty
  \/ UndoAtEnd
  \/ UndoPick
  \/ UndoRestored
  \/ UndoRestoreFailed
  \/ UndoRestoreBroke

undoVars == <<snapshotVars, undoLock>>

SpecUndo == InitUndo /\ [][NextUndo]_undoVars

\* the invocations of undoLastOperation between their first and last statement
InProgress == {t \in Undoers : undoers[t].pos # "idle"}

\* an invocation that finds the lock held
CallWhileLocked == undoLock /\ calls' = calls + 1

\* what such an invocation leaves alone: no restore, no host call, the lock
LeavesAllAlone ==
  /\ UNCHANGED <<autoLists, pcbContent, currentPcb, lastRestoredId, undone, made, undoLock>>
  /\ \A t \in Undoers : undoers'[t].pos = undoers[t].pos

OneOlder(r) == IF r.index < Len(r.list) THEN r.list[r.index + 1].id ELSE 0

\* C25: of two consecutive successful undos with no snapshot created in
\* between, the later one restores the snapshot exactly one position older
\* than the one the earlier one restored.
C25_EachUndoOneOlder ==
  \A k \in 1..(Len(undone) - 1) :
    undone[k + 1].made = undone[k].made => undone[k + 1].id = OneOlder(undone[k])
====
